---- MODULE Spec2Model ----
(***************************************************************************)
(* A model of the AOP core (src/src-tauri/src): the task store, the        *)
(* mutation store, the operator commands, the mutation pipeline, the       *)
(* cooperative checkpoint of the task runtime, the tier-1 plan execution   *)
(* (approve_plan_and_spawn over tier-3 assignments) and the budget-request *)
(* service.                                                                *)
(*                                                                         *)
(* Granularity.  The host is a cooperative async runtime: a handler can be *)
(* interleaved with others only at an .await.  A short command (one store  *)
(* call and its audit write) is one action.  A long-running entry point    *)
(* (run_mutation_pipeline, cooperative_checkpoint, approve_plan_and_spawn, *)
(* resolve_budget_request) is a process with a program counter: one action *)
(* per awaited store write or external command, together with the          *)
(* synchronous code that follows it up to the next await.  Awaited steps   *)
(* that touch no shared state (the work in the shadow clone, the model     *)
(* call of a specialist) are folded into the neighbouring store write.  A  *)
(* store function (read the row, UPDATE it) is one step.                   *)
(*                                                                         *)
(* Strings built with format! are tuples of their parts, so that a parser  *)
(* (paused_previous_status) has something to parse.  SQL NULL / None is    *)
(* the empty tuple for messages and the string "NULL" for timestamps.      *)
(* Row ids are handed out in creation order.                               *)
(*                                                                         *)
(* The BridgeClient is shared by tasks that run on several threads and     *)
(* guards its state with atomics and a mutex: there a step is one atomic   *)
(* operation, or one critical section of the mutex.  Its limits (120 calls *)
(* per 60 s, 10 concurrent calls, 50 queued calls) are scaled down; time   *)
(* is a clock of whole ticks.                                              *)
(*                                                                         *)
(* Spec            the stores, the operator's commands, the pipeline       *)
(* SpecCheckpoint  cooperative_checkpoint against the operator's commands  *)
(* SpecApprove     approve_plan_and_spawn against control_task on its root *)
(* SpecBudget      concurrent resolve_budget_request calls                 *)
(* SpecPipes       concurrent run_mutation_pipeline calls on one project   *)
(* SpecDomain      execute_domain_task against control_task on its task    *)
(* SpecTree        every way a task row is created                         *)
(* SpecPlan        approve_plan_and_spawn on a plan and its token budgets  *)
(* SpecBridge      concurrent BridgeClient::call on one client             *)
(***************************************************************************)
EXTENDS Integers, Sequences, FiniteSets, TLC

VARIABLES
    tasks,        \* aop_tasks: task id -> row
    mutations,    \* aop_mutations: mutation id -> row
    audit,        \* aop_audit_log: number of rows
    workingCopy,  \* the target project's working tree
    pipe,         \* run_mutation_pipeline calls in flight
    ck,           \* the cooperative_checkpoint call in flight
    wk,           \* the approve_plan_and_spawn call in flight
    dl,           \* the execute_domain_task call in flight
    hb,           \* the ensure_budget_headroom call in flight
    rev,          \* the request_mutation_revision call in flight
    bridge,       \* the BridgeClient, the calls on it, and the clock
    ctl,          \* control_task calls in flight
    rt,           \* the runtime flags, the process environment, their users
    gp,           \* the generate_plan call
    requests,     \* aop_budget_requests: request id -> row
    calls,        \* resolve_budget_request calls in flight
    ops,          \* operator commands issued so far
    last          \* history: the last action taken

vars == <<tasks, mutations, audit, workingCopy, pipe, ck, wk, dl, hb, rev, bridge, ctl, rt, gp,
          requests, calls, ops, last>>

----------------------------------------------------------------------------
(* Bounds of the model *)

\* pipeline invocations
NRuns == 1
\* operator commands
MaxOps == 2
\* cooperative_checkpoint calls
MaxCalls == 2
\* assignments of a plan
NAssignments == 2
\* resolve_budget_request calls
NCalls == 2
\* control_task calls
NControl == 2
\* set_runtime_flags calls
MaxUpdates == 2
\* BridgeClient::call invocations
NBridgeCalls == 4
\* max_calls_per_minute of the client (120 by default)
MaxCallsPerMinute == 2
\* max_concurrent_calls of the client (10 by default)
MaxConcurrentCalls == 2
\* MAX_QUEUED_CALLS (50 in the source)
MaxQueuedCalls == 1
\* RATE_LIMIT_WINDOW in ticks of the clock (60 s in the source)
RateLimitWindow == 2
\* the last tick of the clock
MaxTime == 3
\* concurrent run_mutation_pipeline calls
NPipes == 2

Runs == 1..NRuns

----------------------------------------------------------------------------
(* Values *)

TaskStatuses == {"pending", "executing", "completed", "failed", "paused"}
MutationStatuses == {"proposed", "validated", "validated_no_tests", "applied", "rejected"}
ControlActions == {"pause", "resume", "stop", "restart"}

NULL == <<>>
Some(v) == <<v>>
MARKER == "__aop_paused_prev_status:"
STOP_PREFIX == "stopped_by_user:"
PIPELINE_TOKENS == 450

WaitingNote == <<"Waiting for Tier 1 approval before apply.">>
ReadyNote == <<"ready_for_review: tier3 proposal generated; running mutation pipeline.">>

\* The ids of the rows present when the model starts.
RootTask == 1
LeafTask == 2
InitMutations == {1}

----------------------------------------------------------------------------
(* db/tasks.rs *)

UpdateTaskStatus(ts, t, s, em) ==
    [ts EXCEPT ![t].status = s, ![t].error_message = em]

\* Option arguments: NULL is None and keeps the stored value, Some(v) sets v.
UpdateTaskOutcome(ts, t, s, usage, score, em) ==
    [ts EXCEPT ![t].status = s,
               ![t].token_usage = IF usage = NULL THEN @ ELSE usage[1],
               ![t].compliance_score = IF score = NULL THEN @ ELSE score[1],
               ![t].error_message = IF em = NULL THEN @ ELSE em]

IncreaseTaskBudget(ts, t, inc) ==
    [ts EXCEPT ![t].token_budget = @ + inc]

PausedPreviousStatus_AlwaysExecuting(em) == "executing"

PausedPreviousStatus(em) ==
    IF em = NULL THEN "executing"
    ELSE IF Len(em) < 2 \/ em[1] # MARKER THEN "executing"
    ELSE IF em[2] = "pending" THEN "pending"
    ELSE "executing"

Children(ts, p) == {c \in DOMAIN ts : ts[c].parent_id = p}

\* The children of p, oldest first (ids are handed out in creation order).
RECURSIVE SortedSeq(_)
SortedSeq(S) ==
    IF S = {} THEN <<>>
    ELSE LET m == CHOOSE x \in S : \A y \in S : x <= y
         IN <<m>> \o SortedSeq(S \ {m})

\* The traversal if the children were put at the front of the queue.
RECURSIVE Bfs_ChildrenFirst(_, _, _)
Bfs_ChildrenFirst(ts, queue, ordered) ==
    IF queue = <<>> THEN ordered
    ELSE LET kids == SortedSeq(Children(ts, Head(queue)))
         IN Bfs_ChildrenFirst(ts, kids \o Tail(queue), ordered \o kids)

RECURSIVE Bfs(_, _, _)
Bfs(ts, queue, ordered) ==
    IF queue = <<>> THEN ordered
    ELSE LET kids == SortedSeq(Children(ts, Head(queue)))
         IN Bfs(ts, Tail(queue) \o kids, ordered \o kids)

CollectTaskTreeIds(ts, root) == Bfs(ts, <<root>>, <<root>>)

\* One iteration of control_task's loop, for the task id t.
\* control_task stop that spares paused tasks.
ControlWrite_StopSparesPaused(ts, t, action, reason, current) ==
    CASE action = "pause" ->
            IF current.status \in {"completed", "failed", "paused"} THEN ts
            ELSE UpdateTaskStatus(ts, t, "paused", <<MARKER, current.status>>)
      [] action = "resume" ->
            IF current.status # "paused" THEN ts
            ELSE UpdateTaskStatus(ts, t, PausedPreviousStatus(current.error_message), NULL)
      [] action = "stop" ->
            IF current.status \in {"completed", "failed", "paused"} THEN ts
            ELSE UpdateTaskStatus(ts, t, "failed", <<STOP_PREFIX, reason>>)
      [] OTHER ->
            IF current.status \notin {"failed", "completed", "paused"} THEN ts
            ELSE [ts EXCEPT ![t].status = "pending",
                            ![t].error_message = NULL,
                            ![t].retry_count = @ + 1]

\* control_task restart that writes back the retry_count it read, plus one.
ControlWrite_StaleRetryCount(ts, t, action, reason, current) ==
    CASE action = "pause" ->
            IF current.status \in {"completed", "failed", "paused"} THEN ts
            ELSE UpdateTaskStatus(ts, t, "paused", <<MARKER, current.status>>)
      [] action = "resume" ->
            IF current.status # "paused" THEN ts
            ELSE UpdateTaskStatus(ts, t, PausedPreviousStatus(current.error_message), NULL)
      [] action = "stop" ->
            IF current.status \in {"completed", "failed"} THEN ts
            ELSE UpdateTaskStatus(ts, t, "failed", <<STOP_PREFIX, reason>>)
      [] OTHER ->
            IF current.status \notin {"failed", "completed", "paused"} THEN ts
            ELSE [ts EXCEPT ![t].status = "pending",
                            ![t].error_message = NULL,
                            ![t].retry_count = current.retry_count + 1]

\* A resume that restores the status and leaves error_message as the pause
\* wrote it.
ControlWrite_ResumeKeepsMarker(ts, t, action, reason, current) ==
    CASE action = "pause" ->
            IF current.status \in {"completed", "failed", "paused"} THEN ts
            ELSE UpdateTaskStatus(ts, t, "paused", <<MARKER, current.status>>)
      [] action = "resume" ->
            IF current.status # "paused" THEN ts
            ELSE [ts EXCEPT ![t].status = PausedPreviousStatus(current.error_message)]
      [] action = "stop" ->
            IF current.status \in {"completed", "failed"} THEN ts
            ELSE UpdateTaskStatus(ts, t, "failed", <<STOP_PREFIX, reason>>)
      [] OTHER ->
            IF current.status \notin {"failed", "completed", "paused"} THEN ts
            ELSE [ts EXCEPT ![t].status = "pending",
                            ![t].error_message = NULL,
                            ![t].retry_count = @ + 1]

\* control_task, lines 264-341: what the loop does to the task t, given the
\* row `current` it has read for it.  The writes of pause, resume and stop go
\* through update_task_status; restart is one UPDATE that counts on the
\* stored retry_count.
ControlWrite(ts, t, action, reason, current) ==
    CASE action = "pause" ->
            IF current.status \in {"completed", "failed", "paused"} THEN ts
            ELSE UpdateTaskStatus(ts, t, "paused", <<MARKER, current.status>>)
      [] action = "resume" ->
            IF current.status # "paused" THEN ts
            ELSE UpdateTaskStatus(ts, t, PausedPreviousStatus(current.error_message), NULL)
      [] action = "stop" ->
            IF current.status \in {"completed", "failed"} THEN ts
            ELSE UpdateTaskStatus(ts, t, "failed", <<STOP_PREFIX, reason>>)
      [] OTHER ->
            IF current.status \notin {"failed", "completed", "paused"} THEN ts
            ELSE [ts EXCEPT ![t].status = "pending",
                            ![t].error_message = NULL,
                            ![t].retry_count = @ + 1]

\* One turn of the loop with nothing between its read and its write.
ControlOne(ts, t, action, reason) == ControlWrite(ts, t, action, reason, ts[t])

RECURSIVE ControlAll(_, _, _, _)
ControlAll(ts, ids, action, reason) ==
    IF ids = <<>> THEN ts
    ELSE ControlAll(ControlOne(ts, Head(ids), action, reason), Tail(ids), action, reason)

ControlTargets(ts, t, descendants) ==
    IF descendants THEN CollectTaskTreeIds(ts, t) ELSE <<t>>

----------------------------------------------------------------------------
(* db/mutations.rs *)

UpdateMutationStatus(ms, m, s, reason, step) ==
    [ms EXCEPT ![m].status = s,
               ![m].rejection_reason = IF reason = NULL THEN @ ELSE reason,
               ![m].rejected_at_step = IF step = NULL THEN @ ELSE step,
               ![m].applied_at = IF s = "applied" THEN "set" ELSE @]

NewMutation(t) ==
    [task_id |-> t, status |-> "proposed", rejection_reason |-> NULL,
     rejected_at_step |-> NULL, applied_at |-> "NULL"]

NewTask(parent, tier, status, budget) ==
    [parent_id |-> parent, tier |-> tier, status |-> status, error_message |-> NULL,
     token_budget |-> budget, token_usage |-> 0, compliance_score |-> 0,
     retry_count |-> 0]

----------------------------------------------------------------------------
(* Initial state: a tier-1 root whose plan held one tier-3 assignment; the *)
(* assignment has run (execute_planned_tier3_task) and left its proposals  *)
(* in the mutation store.                                                  *)

\* A run_mutation_pipeline call: its position, its arguments (mid, approved),
\* its locals (task, usage: the task row read at entry; shadow: the status the
\* shadow test chose), and what it has done so far (passed: the steps passed,
\* failed: the step that failed, rejected: reject_pipeline ran to its end,
\* touched: it wrote to the working copy, result: what it returned).
IdlePipe ==
    [pc |-> "idle", mid |-> 0, approved |-> FALSE, task |-> 0, usage |-> 0,
     shadow |-> "none", passed |-> {}, failed |-> "none", rejected |-> FALSE,
     touched |-> FALSE, result |-> "none"]

\* A cooperative_checkpoint call: task_id, the local observed_pause, what it
\* returned, how many calls have been made, and the last audit event a call
\* wrote.
IdleCheckpoint ==
    [pc |-> "idle", task |-> 0, observed_pause |-> FALSE, result |-> "none", n |-> 0,
     noted |-> NULL]

\* An approve_plan_and_spawn call: root_task_id, the locals planned_tasks,
\* applied_mutations and failed_executions, the assignment and the mutations
\* being worked on, the assignments started so far, and what it returned.
IdleApprove ==
    [pc |-> "idle", root |-> 0, planned |-> <<>>, current |-> 0, todo |-> <<>>,
     started |-> <<>>, applied_mutations |-> 0, failed_executions |-> 0,
     task_failed_runs |-> 0, result |-> "none"]

NoOp == [op |-> "init", task |-> 0, prev |-> <<>>]

\* The parts of the state a specification does not use.
NoPipeline ==
    /\ workingCopy = [applied |-> <<>>, patch_files |-> {}, commits |-> {}]
    /\ pipe = [r \in Runs |-> IdlePipe]

\* An execute_domain_task call: its task (the tier-2 row read at entry) and
\* that row's token_budget, the locals personas, specialist_budgets, idx (from
\* 1), tokens_spent and proposals (the personas whose proposal was pushed),
\* the tier-3 task and the tokens_used of the proposal in hand, the personas
\* for which create_mutation was called, whether detect_conflict reported a
\* conflict, the status of the IntentSummary, and what the call returned.
IdleDomain ==
    [pc |-> "idle", task |-> 0, budget |-> 0, personas |-> <<>>,
     specialist_budgets |-> <<>>, idx |-> 0, specialist |-> 0, tokens_used |-> 0,
     tokens_spent |-> 0, proposals |-> <<>>, created |-> <<>>, blocked_at |-> {},
     conflict |-> FALSE, status |-> "none", result |-> "none"]

\* An ensure_budget_headroom call: task_id and planned_tokens, the locals
\* remaining, threshold and the request it filed, what it returned, how
\* many calls have been made, and the last audit event a call wrote.
IdleHeadroom ==
    [pc |-> "idle", task |-> 0, planned_tokens |-> 0, budget |-> 0, remaining |-> 0,
     threshold |-> 0, increment |-> 0, request |-> 0, enabled |-> FALSE,
     auto_approve |-> FALSE, result |-> "none", n |-> 0, noted |-> NULL]

\* A request_mutation_revision call: mutation_id, the locals parent_task and
\* revised_task, and what it returned.
IdleRevision ==
    [pc |-> "idle", mid |-> 0, parent_task |-> 0, revised_task |-> 0, result |-> "none"]

\* One BridgeClient::call: its position, the locals queued (reserve_call_slot)
\* and now (the argument of check_rate_limit_with_now), and what it returned.
IdleBridgeCall == [pc |-> "idle", queued |-> 0, now |-> 0, result |-> NULL]

\* BridgeClient::with_limits, lines 58-73: queued_calls, the free permits of
\* concurrent_calls, the rate limiter's call_timestamps; then the calls, the
\* clock, and the times at which the rate limiter accepted a call.
NewBridgeClient(max_concurrent_calls, ncalls) ==
    [queued_calls |-> 0, permits |-> max_concurrent_calls, call_timestamps |-> <<>>,
     call |-> [c \in 1..ncalls |-> IdleBridgeCall], clock |-> 0, accepted |-> <<>>]

\* A control_task call: its action and reason, the target ids still to
\* visit, the row read for the one being visited, how many rows it has
\* updated, and what it returned.
IdleControl ==
    [pc |-> "idle", action |-> "none", reason |-> "none", todo |-> <<>>, current |-> NULL,
     updated |-> 0, result |-> "none"]

\* RuntimeFlags::from_env with nothing set, runtime_config.rs lines 38-49: the
\* flags the task runtime reads.
DefaultFlags ==
    [auto_approve_budget_requests |-> TRUE, budget_headroom_percent |-> 25,
     budget_auto_max_percent |-> 40, budget_min_increment |-> 250]

\* The environment variables of those flags, in the order sync_to_process_env
\* sets them.
FlagVars ==
    <<"AOP_AUTO_APPROVE_BUDGET_REQUESTS", "AOP_BUDGET_HEADROOM_PERCENT",
      "AOP_BUDGET_AUTO_MAX_PERCENT", "AOP_BUDGET_MIN_INCREMENT">>

\* bool_to_env, runtime_config.rs lines 146-152
BoolToEnv(value) == IF value THEN "1" ELSE "0"

\* The value sync_to_process_env sets for the i-th variable, lines 87-105.
EnvValue(flags, i) ==
    CASE i = 1 -> BoolToEnv(flags.auto_approve_budget_requests)
      [] i = 2 -> flags.budget_headroom_percent
      [] i = 3 -> flags.budget_auto_max_percent
      [] OTHER -> flags.budget_min_increment

\* AppState.runtime_flags behind its RwLock, the process environment, the
\* set_runtime_flags call in flight (it holds the write lock from its start to
\* its return), a get_runtime_flags call, a reader of the task runtime, the
\* configurations that have been in force, and the updates made so far.
NewRuntime ==
    [flags |-> DefaultFlags,
     env |-> [i \in DOMAIN FlagVars |-> EnvValue(DefaultFlags, i)],
     set |-> [pc |-> "idle", i |-> 0],
     got |-> NULL,
     reader |-> [pc |-> "idle", seen |-> <<>>],
     history |-> {DefaultFlags},
     n |-> 0]

\* orchestrator.rs generate_plan: no call yet. plan holds the tiers of the
\* tasks of the model's plan, budgets what allocate_token_budgets gave,
\* assignments the token_budget of each returned assignment, created the
\* ids of the rows created for them.
IdlePlan ==
    [pc |-> "idle", root |-> 0, global_token_budget |-> 0, plan |-> <<>>, budgets |-> <<>>,
     assignments |-> <<>>, created |-> <<>>, result |-> "none"]

NoAgents ==
    /\ ck = IdleCheckpoint /\ wk = IdleApprove /\ dl = IdleDomain /\ hb = IdleHeadroom
    /\ rev = IdleRevision /\ ctl = <<>> /\ rt = NewRuntime /\ gp = IdlePlan

NoWorkers == NoAgents /\ bridge = NewBridgeClient(0, 0)

\* A resolve_budget_request call: its arguments (req, decision, resume_task),
\* its local increment, and what it returned.
IdleCall ==
    [pc |-> "idle", req |-> 0, decision |-> "none", increment |-> 0,
     resume_task |-> FALSE, result |-> "none"]

NoBudget == requests = <<>> /\ calls = [c \in 1..NCalls |-> IdleCall]

\* The assignment as execute_planned_tier3_task left it.
ProposedLeaf ==
    [NewTask(RootTask, 3, "paused", 800) EXCEPT
        !.token_usage = 40, !.compliance_score = 70, !.error_message = ReadyNote]

\* The same assignment after an operator restart.
RestartedLeaf ==
    [ProposedLeaf EXCEPT !.status = "pending", !.error_message = NULL, !.retry_count = 1]

Init ==
    /\ \E leaf \in {ProposedLeaf, RestartedLeaf} :
          tasks = (RootTask :> NewTask(0, 1, "executing", 8000)) @@ (LeafTask :> leaf)
    /\ mutations = [m \in InitMutations |-> NewMutation(LeafTask)]
    /\ audit = 0
    /\ NoPipeline
    /\ NoWorkers
    /\ NoBudget
    /\ ops = 0
    /\ last = NoOp

----------------------------------------------------------------------------
(* commands.rs: the operator's short commands *)

Workers == <<ck, wk, dl, hb, rev, bridge, ctl, rt, gp>>
Budget == <<requests, calls>>

Did(op, t) == [op |-> op, task |-> t, prev |-> <<>>]

\* commands.rs update_task_status -> tasks::update_task_status
UpdateTaskStatusCmd(t, s, em) ==
    /\ ops < MaxOps
    /\ t \in DOMAIN tasks
    /\ tasks' = UpdateTaskStatus(tasks, t, s, em)
    /\ ops' = ops + 1
    /\ last' = Did("update_task_status", t)
    /\ UNCHANGED <<mutations, audit, workingCopy, pipe, Workers, Budget>>

\* commands.rs control_task -> tasks::control_task
ControlTaskCmd(t, action, descendants) ==
    /\ ops < MaxOps
    /\ t \in DOMAIN tasks
    /\ LET ids == ControlTargets(tasks, t, descendants)
           new == ControlAll(tasks, ids, action, "stopped by user")
       IN /\ tasks' = new
          /\ audit' = IF new = tasks THEN audit ELSE audit + 1
          /\ last' = [op |-> action, task |-> t,
                      prev |-> [i \in {ids[k] : k \in DOMAIN ids} |-> tasks[i].status]]
    /\ ops' = ops + 1
    /\ UNCHANGED <<mutations, workingCopy, pipe, Workers, Budget>>

\* commands.rs set_mutation_status -> mutations::update_mutation_status
SetMutationStatusCmd(m, s) ==
    /\ ops < MaxOps
    /\ m \in DOMAIN mutations
    /\ mutations' = UpdateMutationStatus(mutations, m, s, NULL, NULL)
    /\ audit' = audit + 1
    /\ ops' = ops + 1
    /\ last' = Did("set_mutation_status", mutations[m].task_id)
    /\ UNCHANGED <<tasks, workingCopy, pipe, Workers, Budget>>

----------------------------------------------------------------------------
(* mutation_pipeline.rs: run_mutation_pipeline *)

PipeFrame == <<ops, Workers, Budget>>

\* The early return of lines 84-89, taken on the row read at entry.
RefusesAtEntry_Never(row) == FALSE

RefusesAtEntry(row) == row.status \in {"applied", "rejected"}

\* lines 79-89: read the mutation and its task, refuse a settled mutation.
Entered(run, m, approved) ==
    [run EXCEPT !.mid = m, !.approved = approved, !.task = mutations[m].task_id,
                !.usage = tasks[mutations[m].task_id].token_usage,
                !.pc = IF RefusesAtEntry(mutations[m]) THEN "done" ELSE "audit",
                !.result = IF RefusesAtEntry(mutations[m]) THEN "err" ELSE "none"]

\* commands.rs run_mutation_pipeline -> mutation_pipeline::run_mutation_pipeline
PipeStart(r, m, approved) ==
    /\ pipe[r].pc = "idle"
    /\ \A q \in Runs : q < r => pipe[q].pc # "idle"
    /\ m \in DOMAIN mutations
    /\ pipe' = [pipe EXCEPT ![r] = Entered(@, m, approved)]
    /\ last' = Did("pipeline_start", mutations[m].task_id)
    /\ UNCHANGED <<tasks, mutations, audit, workingCopy, PipeFrame>>

Fail(run, step) == [run EXCEPT !.pc = "rej_mut", !.failed = step]

ValidationSteps == <<"shadow_test", "semantic_regression", "tier2_compliance">>

\* The steps before the first that fails (all three when none fails).
PassedBefore(outcome) ==
    {ValidationSteps[i] : i \in {j \in 1..3 : \A k \in 1..j : ValidationSteps[k] # outcome}}

\* lines 91-203: the pipeline_started audit event, then run_shadow_test,
\* semantic_similarity_score and run_tier2_compliance_check, which work on the
\* shadow clone and the mutation row read at entry.  outcome is the step that
\* fails, or the status the shadow test chose.
PipeValidate(r, outcome) ==
    /\ pipe[r].pc = "audit"
    /\ audit' = audit + 1
    /\ pipe' = [pipe EXCEPT ![r] =
                  IF outcome \in {"validated", "validated_no_tests"}
                  THEN [@ EXCEPT !.pc = "mark", !.shadow = outcome,
                                 !.passed = PassedBefore(outcome)]
                  ELSE Fail([@ EXCEPT !.passed = PassedBefore(outcome)], outcome)]
    /\ last' = Did("pipeline", pipe[r].task)
    /\ UNCHANGED <<tasks, mutations, workingCopy, PipeFrame>>

PipeMark_IgnoresApproval(r) ==
    /\ pipe[r].pc = "mark"
    /\ mutations' = UpdateMutationStatus(mutations, pipe[r].mid, pipe[r].shadow, NULL, NULL)
    /\ pipe' = [pipe EXCEPT ![r].pc = "apply_prepare"]
    /\ last' = Did("pipeline", pipe[r].task)
    /\ UNCHANGED <<tasks, audit, workingCopy, PipeFrame>>

\* lines 205-224: mark the mutation validated, then branch on tier1_approved.
PipeMark(r) ==
    /\ pipe[r].pc = "mark"
    /\ mutations' = UpdateMutationStatus(mutations, pipe[r].mid, pipe[r].shadow, NULL, NULL)
    /\ pipe' = [pipe EXCEPT ![r].pc = IF pipe[r].approved THEN "apply_prepare"
                                      ELSE "gate_pause"]
    /\ last' = Did("pipeline", pipe[r].task)
    /\ UNCHANGED <<tasks, audit, workingCopy, PipeFrame>>

\* A gate that parks the task without saying why.
PipeGatePause_NoNote(r) ==
    /\ pipe[r].pc = "gate_pause"
    /\ tasks' = UpdateTaskOutcome(tasks, pipe[r].task, "paused", NULL, Some(70), NULL)
    /\ pipe' = [pipe EXCEPT ![r].pc = "done", ![r].result = "ok"]
    /\ last' = Did("pipeline", pipe[r].task)
    /\ UNCHANGED <<mutations, audit, workingCopy, PipeFrame>>

\* lines 224-252: park the task until tier 1 approves.
PipeGatePause(r) ==
    /\ pipe[r].pc = "gate_pause"
    /\ tasks' = UpdateTaskOutcome(tasks, pipe[r].task, "paused", NULL, Some(70), WaitingNote)
    /\ pipe' = [pipe EXCEPT ![r].pc = "done", ![r].result = "ok"]
    /\ last' = Did("pipeline", pipe[r].task)
    /\ UNCHANGED <<mutations, audit, workingCopy, PipeFrame>>

\* lines 260-261 and 515-529: checksum_for_target_file, then the start of
\* apply_and_commit_mutation up to its first git command: resolve the root,
\* write the patch file into the working copy, rewrite CRLF line endings.
PipeApplyPrepare(r, outcome) ==
    /\ pipe[r].pc = "apply_prepare"
    /\ outcome \in {"checksum_error", "no_git_dir", "normalize_error", "ready"}
    /\ CASE outcome = "checksum_error" ->
              /\ pipe' = [pipe EXCEPT ![r].pc = "done", ![r].result = "err",
                                      ![r].failed = "checksum_before"]
              /\ UNCHANGED workingCopy
         [] outcome = "no_git_dir" ->
              /\ pipe' = [pipe EXCEPT ![r] = Fail(@, "apply")]
              /\ UNCHANGED workingCopy
         [] outcome = "normalize_error" ->
              /\ pipe' = [pipe EXCEPT ![r] = Fail([@ EXCEPT !.touched = TRUE], "apply")]
              /\ workingCopy' = [workingCopy EXCEPT !.patch_files = @ \cup {pipe[r].mid}]
         [] OTHER ->
              /\ pipe' = [pipe EXCEPT ![r].pc = "apply_check", ![r].touched = TRUE]
              /\ workingCopy' = [workingCopy EXCEPT !.patch_files = @ \cup {pipe[r].mid}]
    /\ last' = Did("pipeline", pipe[r].task)
    /\ UNCHANGED <<tasks, mutations, audit, PipeFrame>>

\* lines 531-537: git apply --check in the working copy.
PipeApplyCheck(r, ok) ==
    /\ pipe[r].pc = "apply_check"
    /\ pipe' = [pipe EXCEPT ![r] = IF ok THEN [@ EXCEPT !.pc = "git_apply"]
                                   ELSE Fail(@, "apply")]
    /\ last' = Did("pipeline", pipe[r].task)
    /\ UNCHANGED <<tasks, mutations, audit, workingCopy, PipeFrame>>

\* lines 538-551: git apply, remove the patch file, read AOP_AUTO_COMMIT_MUTATIONS.
PipeGitApply(r, ok, auto_commit) ==
    /\ pipe[r].pc = "git_apply"
    /\ IF ok
       THEN /\ workingCopy' = [workingCopy EXCEPT
                                 !.applied = Append(@, pipe[r].mid),
                                 !.patch_files = @ \ {pipe[r].mid}]
            /\ pipe' = [pipe EXCEPT ![r].pc = IF auto_commit THEN "commit"
                                              ELSE "mark_applied"]
       ELSE /\ pipe' = [pipe EXCEPT ![r] = Fail(@, "apply")]
            /\ UNCHANGED workingCopy
    /\ last' = Did("pipeline", pipe[r].task)
    /\ UNCHANGED <<tasks, mutations, audit, PipeFrame>>

\* lines 551-574: git add and git commit.
PipeCommit(r, ok) ==
    /\ pipe[r].pc = "commit"
    /\ IF ok
       THEN /\ workingCopy' = [workingCopy EXCEPT !.commits = @ \cup {pipe[r].mid}]
            /\ pipe' = [pipe EXCEPT ![r].pc = "mark_applied"]
       ELSE /\ pipe' = [pipe EXCEPT ![r] = Fail(@, "apply")]
            /\ UNCHANGED workingCopy
    /\ last' = Did("pipeline", pipe[r].task)
    /\ UNCHANGED <<tasks, mutations, audit, PipeFrame>>

\* lines 291-304: checksum_for_target_file, then mark the mutation applied.
PipeMarkApplied(r, checksum_ok) ==
    /\ pipe[r].pc = "mark_applied"
    /\ IF checksum_ok
       THEN /\ mutations' = UpdateMutationStatus(mutations, pipe[r].mid, "applied", NULL, NULL)
            /\ pipe' = [pipe EXCEPT ![r].pc = "task_done"]
       ELSE /\ pipe' = [pipe EXCEPT ![r].pc = "done", ![r].result = "err",
                                    ![r].failed = "checksum_after"]
            /\ UNCHANGED mutations
    /\ last' = Did("pipeline", pipe[r].task)
    /\ UNCHANGED <<tasks, audit, workingCopy, PipeFrame>>

\* lines 306-328: the task outcome of a successful run.
PipeTaskDone(r) ==
    /\ pipe[r].pc = "task_done"
    /\ tasks' = UpdateTaskOutcome(tasks, pipe[r].task, "completed",
                                  Some(pipe[r].usage + PIPELINE_TOKENS), Some(85), NULL)
    /\ pipe' = [pipe EXCEPT ![r].pc = "done", ![r].result = "ok"]
    /\ last' = Did("pipeline", pipe[r].task)
    /\ UNCHANGED <<mutations, audit, workingCopy, PipeFrame>>

Reason(step) == <<"pipeline failure", step>>

\* reject_pipeline, lines 887-898
PipeRejectMutation(r) ==
    /\ pipe[r].pc = "rej_mut"
    /\ mutations' = UpdateMutationStatus(mutations, pipe[r].mid, "rejected",
                                         Reason(pipe[r].failed), <<pipe[r].failed>>)
    /\ pipe' = [pipe EXCEPT ![r].pc = "rej_audit"]
    /\ last' = Did("pipeline_reject", pipe[r].task)
    /\ UNCHANGED <<tasks, audit, workingCopy, PipeFrame>>

\* reject_pipeline, lines 900-911
PipeRejectAudit(r) ==
    /\ pipe[r].pc = "rej_audit"
    /\ audit' = audit + 1
    /\ pipe' = [pipe EXCEPT ![r].pc = "rej_task"]
    /\ last' = Did("pipeline_reject", pipe[r].task)
    /\ UNCHANGED <<tasks, mutations, workingCopy, PipeFrame>>

\* reject_pipeline, lines 913-933
PipeRejectTask(r) ==
    /\ pipe[r].pc = "rej_task"
    /\ tasks' = UpdateTaskOutcome(tasks, pipe[r].task, "failed", NULL, Some(0),
                                  Reason(pipe[r].failed))
    /\ pipe' = [pipe EXCEPT ![r].pc = "done", ![r].result = "ok", ![r].rejected = TRUE]
    /\ last' = Did("pipeline_reject", pipe[r].task)
    /\ UNCHANGED <<mutations, audit, workingCopy, PipeFrame>>

----------------------------------------------------------------------------
(* Spec: the stores, the operator's commands and the pipeline *)

Next ==
    \/ \E t \in DOMAIN tasks, s \in TaskStatuses : UpdateTaskStatusCmd(t, s, NULL)
    \/ \E t \in DOMAIN tasks, a \in ControlActions, d \in BOOLEAN :
          ControlTaskCmd(t, a, d)
    \/ \E m \in DOMAIN mutations, s \in MutationStatuses : SetMutationStatusCmd(m, s)
    \/ \E r \in Runs, m \in DOMAIN mutations, a \in BOOLEAN : PipeStart(r, m, a)
    \/ \E r \in Runs, o \in {"validated", "validated_no_tests", "shadow_test",
                             "semantic_regression", "tier2_compliance"} :
          PipeValidate(r, o)
    \/ \E r \in Runs : PipeMark(r)
    \/ \E r \in Runs : PipeGatePause(r)
    \/ \E r \in Runs, o \in {"checksum_error", "no_git_dir", "normalize_error", "ready"} :
          PipeApplyPrepare(r, o)
    \/ \E r \in Runs, ok \in BOOLEAN : PipeApplyCheck(r, ok)
    \/ \E r \in Runs, ok \in BOOLEAN, c \in BOOLEAN : PipeGitApply(r, ok, c)
    \/ \E r \in Runs, ok \in BOOLEAN : PipeCommit(r, ok)
    \/ \E r \in Runs, ok \in BOOLEAN : PipeMarkApplied(r, ok)
    \/ \E r \in Runs : PipeTaskDone(r)
    \/ \E r \in Runs : PipeRejectMutation(r)
    \/ \E r \in Runs : PipeRejectAudit(r)
    \/ \E r \in Runs : PipeRejectTask(r)

Spec == Init /\ [][Next]_vars

----------------------------------------------------------------------------
(* Properties of Spec *)

\* C1: a completed task leaves completed only by the control_task restart
\* action; no other operation moves it to another status.
C1_CompletedLeavesOnlyByRestart ==
    [][\A t \in DOMAIN tasks :
         (tasks[t].status = "completed" /\ tasks'[t].status # "completed")
            => last'.op = "restart"]_vars

Dag(s) ==
    CASE s = "proposed" -> {"validated", "validated_no_tests", "rejected"}
      [] s \in {"validated", "validated_no_tests"} -> {"applied", "rejected"}
      [] OTHER -> {}

\* C2: every change of a mutation's status is an edge of the DAG
\* proposed -> {validated, validated_no_tests, rejected},
\* validated / validated_no_tests -> {applied, rejected}; applied and rejected
\* are never left.
C2_MutationStatusFollowsDag ==
    [][\A m \in DOMAIN mutations :
         mutations'[m].status # mutations[m].status
            => mutations'[m].status \in Dag(mutations[m].status)]_vars

ValidatedAndApproved(run) ==
    /\ run.passed = {"shadow_test", "semantic_regression", "tier2_compliance"}
    /\ run.approved
    /\ run.failed \in {"none", "apply", "checksum_after"}

C7_PauseResumeRestores ==
    [][(last.op = "pause" /\ last'.op = "resume" /\ last'.task = last.task)
         => \A t \in DOMAIN last.prev \cap DOMAIN last'.prev :
               last.prev[t] \in {"pending", "executing"}
                  => tasks'[t].status = last.prev[t]]_vars

\* A resume has just brought a task back to pending.
C7_Witness ==
    /\ last.op = "resume"
    /\ \E t \in DOMAIN last.prev : last.prev[t] = "paused" /\ tasks[t].status = "pending"

\* C8: applied_at is set if and only if the status is applied.
C8_AppliedAtIffApplied ==
    \A m \in DOMAIN mutations :
        (mutations[m].applied_at # "NULL") <=> (mutations[m].status = "applied")

\* C9: a run_mutation_pipeline call that finds its mutation applied or
\* rejected returns an error, and its step leaves the mutation store, the task
\* store, the audit log and the working copy as they were.
C9_SettledMutationRefused ==
    [][\A r \in Runs :
         (pipe[r].pc = "idle" /\ pipe'[r].pc # "idle"
            /\ mutations[pipe'[r].mid].status \in {"applied", "rejected"})
         => /\ pipe'[r].pc = "done"
            /\ pipe'[r].result = "err"
            /\ UNCHANGED <<tasks, mutations, audit, workingCopy>>]_vars

\* A run was refused at entry.
C9_Witness ==
    \E r \in Runs :
        /\ pipe[r].pc = "done" /\ pipe[r].result = "err" /\ pipe[r].failed = "none"
        /\ mutations[pipe[r].mid].status \in {"applied", "rejected"}

\* C10: when a pipeline run that failed at some step returns, its mutation is
\* rejected with the failing step recorded and its task is failed with
\* compliance score 0.
C10_FailureRoutesThroughReject ==
    [][\A r \in Runs :
         (pipe[r].pc # "done" /\ pipe'[r].pc = "done" /\ pipe'[r].failed # "none")
         => /\ mutations'[pipe'[r].mid].status = "rejected"
            /\ mutations'[pipe'[r].mid].rejected_at_step = <<pipe'[r].failed>>
            /\ tasks'[pipe'[r].task].status = "failed"
            /\ tasks'[pipe'[r].task].compliance_score = 0]_vars

----------------------------------------------------------------------------
(* task_runtime.rs: cooperative_checkpoint *)

CkFrame == <<mutations, workingCopy, pipe, wk, dl, hb, rev, bridge, ctl, rt, gp, Budget, ops>>

\* The audit event a checkpoint call at an audit step is about to write
\* (metrics::record_audit_event, lines 47-54, 65-72, 83-90), with the row of
\* its task at that moment.
CkEvent ==
    [action |-> CASE ck.pc = "audit_pause" -> "task_pause_observed"
                  [] ck.pc = "audit_stop" -> "task_stop_observed"
                  [] OTHER -> "task_resume_observed",
     task |-> ck.task, row |-> tasks[ck.task], requests |-> <<>>]

\* line 36: a worker reaches a task boundary and calls the checkpoint.
CkCall(t) ==
    /\ ck.pc \in {"idle", "done"}
    /\ ck.n < MaxCalls
    /\ t \in DOMAIN tasks
    /\ ck' = [pc |-> "read", task |-> t, observed_pause |-> FALSE,
              result |-> "none", n |-> ck.n + 1, noted |-> ck.noted]
    /\ last' = Did("checkpoint", t)
    /\ UNCHANGED <<tasks, audit, CkFrame>>

\* A checkpoint that does not wait on a paused task.
CkRead_IgnoresPause ==
    /\ ck.pc = "read"
    /\ LET status == tasks[ck.task].status IN
       ck' = CASE status = "failed" -> [ck EXCEPT !.pc = "audit_stop"]
               [] status = "completed" -> [ck EXCEPT !.pc = "done", !.result = "err"]
               [] OTHER -> [ck EXCEPT !.pc = "done", !.result = "ok"]
    /\ last' = Did("checkpoint", ck.task)
    /\ UNCHANGED <<tasks, audit, mutations, workingCopy, pipe, wk, dl, hb, rev, bridge, ctl, rt, gp,
                   requests, calls, ops>>

\* lines 39-40, 75-81, 92: read the task and branch on its status.
CkRead ==
    /\ ck.pc = "read"
    /\ LET status == tasks[ck.task].status IN
       ck' = CASE status = "paused" ->
                    [ck EXCEPT !.pc = IF ck.observed_pause THEN "sleep" ELSE "audit_pause"]
               [] status = "failed" -> [ck EXCEPT !.pc = "audit_stop"]
               [] status = "completed" -> [ck EXCEPT !.pc = "done", !.result = "err"]
               [] OTHER ->
                    IF ck.observed_pause THEN [ck EXCEPT !.pc = "audit_resume"]
                    ELSE [ck EXCEPT !.pc = "done", !.result = "ok"]
    /\ last' = Did("checkpoint", ck.task)
    /\ UNCHANGED <<tasks, audit, CkFrame>>

\* lines 42-56: the task_pause_observed audit event.
CkAuditPause ==
    /\ ck.pc = "audit_pause"
    /\ audit' = audit + 1
    /\ ck' = [ck EXCEPT !.pc = "sleep", !.observed_pause = TRUE, !.noted = <<CkEvent>>]
    /\ last' = Did("checkpoint", ck.task)
    /\ UNCHANGED <<tasks, CkFrame>>

\* line 57: sleep, then loop.
CkSleep ==
    /\ ck.pc = "sleep"
    /\ ck' = [ck EXCEPT !.pc = "read"]
    /\ last' = Did("checkpoint", ck.task)
    /\ UNCHANGED <<tasks, audit, CkFrame>>

\* lines 59-73: the task_stop_observed audit event, then return Err.
CkAuditStop ==
    /\ ck.pc = "audit_stop"
    /\ audit' = audit + 1
    /\ ck' = [ck EXCEPT !.pc = "done", !.result = "err", !.noted = <<CkEvent>>]
    /\ last' = Did("checkpoint", ck.task)
    /\ UNCHANGED <<tasks, CkFrame>>

\* lines 81-92: the task_resume_observed audit event, then return Ok.
CkAuditResume ==
    /\ ck.pc = "audit_resume"
    /\ audit' = audit + 1
    /\ ck' = [ck EXCEPT !.pc = "done", !.result = "ok", !.noted = <<CkEvent>>]
    /\ last' = Did("checkpoint", ck.task)
    /\ UNCHANGED <<tasks, CkFrame>>

\* A specialist task as execute_domain_task created it.
PendingLeaf == NewTask(RootTask, 3, "pending", 800)

\* The same task after an operator pause.
PausedLeaf ==
    [PendingLeaf EXCEPT !.status = "paused", !.error_message = <<MARKER, "pending">>]

InitCheckpoint ==
    /\ \E leaf \in {PendingLeaf, PausedLeaf} :
          tasks = (RootTask :> NewTask(0, 1, "executing", 8000)) @@ (LeafTask :> leaf)
    /\ mutations = <<>>
    /\ audit = 0
    /\ NoPipeline
    /\ NoWorkers
    /\ NoBudget
    /\ ops = 0
    /\ last = NoOp

NextCheckpoint ==
    \/ \E t \in DOMAIN tasks : CkCall(t)
    \/ CkRead
    \/ CkAuditPause
    \/ CkSleep
    \/ CkAuditStop
    \/ CkAuditResume
    \/ \E t \in DOMAIN tasks, s \in TaskStatuses : UpdateTaskStatusCmd(t, s, NULL)
    \/ \E t \in DOMAIN tasks, a \in ControlActions, d \in BOOLEAN :
          ControlTaskCmd(t, a, d)

SpecCheckpoint == InitCheckpoint /\ [][NextCheckpoint]_vars

\* C4: cooperative_checkpoint never returns Ok while the stored status of its
\* task is paused at the moment of return.
C4_NeverOkWhilePaused ==
    [][(ck.pc # "done" /\ ck'.pc = "done" /\ ck'.result = "ok")
         => tasks[ck.task].status # "paused"]_vars

----------------------------------------------------------------------------
(* agents/orchestrator.rs: approve_plan_and_spawn over tier-3 assignments *)

ApproveFrame == <<workingCopy, ck, dl, hb, rev, bridge, ctl, rt, gp, Budget, ops>>

SeqOfSet(ids, S) == SelectSeq(ids, LAMBDA i : i \in S)

\* lines 435-447: the descendants that are tier 2 or 3 and paused or pending.
PlannedTasks(ts, root) ==
    SeqOfSet(Tail(CollectTaskTreeIds(ts, root)),
             {i \in DOMAIN ts : ts[i].tier \in {2, 3} /\ ts[i].status \in {"paused", "pending"}})

\* lines 426-454: read the root and its tree, refuse a non-root or an empty plan.
ApproveStart(root) ==
    /\ wk.pc = "idle"
    /\ root \in DOMAIN tasks
    /\ LET planned == PlannedTasks(tasks, root) IN
       wk' = IF tasks[root].tier # 1 \/ planned = <<>>
             THEN [wk EXCEPT !.pc = "done", !.root = root, !.result = "err"]
             ELSE [wk EXCEPT !.pc = "root_executing", !.root = root, !.planned = planned]
    /\ last' = Did("approve", root)
    /\ UNCHANGED <<tasks, mutations, audit, pipe, ApproveFrame>>

\* lines 455-463: the root becomes executing, whatever its stored status.
ApproveRootExecuting ==
    /\ wk.pc = "root_executing"
    /\ tasks' = UpdateTaskStatus(tasks, wk.root, "executing", NULL)
    /\ wk' = [wk EXCEPT !.pc = "audit_started"]
    /\ last' = Did("approve", wk.root)
    /\ UNCHANGED <<mutations, audit, pipe, ApproveFrame>>

\* lines 465-477: the orchestration_spawn_started event.
ApproveAuditStarted ==
    /\ wk.pc = "audit_started"
    /\ audit' = audit + 1
    /\ wk' = [wk EXCEPT !.pc = "assign"]
    /\ last' = Did("approve", wk.root)
    /\ UNCHANGED <<tasks, mutations, pipe, ApproveFrame>>

\* line 495 and execute_planned_tier3_task lines 767-775: take the next
\* assignment and set it executing; with none left, go to the final status.
ApproveNextAssignment ==
    /\ wk.pc = "assign"
    /\ IF wk.planned = <<>>
       THEN /\ wk' = [wk EXCEPT !.pc = "final"]
            /\ UNCHANGED tasks
       ELSE /\ tasks' = UpdateTaskStatus(tasks, Head(wk.planned), "executing", NULL)
            /\ wk' = [wk EXCEPT !.pc = "t3_specialist", !.current = Head(wk.planned),
                                !.planned = Tail(wk.planned),
                                !.started = Append(@, Head(wk.planned)),
                                !.task_failed_runs = 0]
    /\ last' = Did("approve", wk.root)
    /\ UNCHANGED <<mutations, audit, pipe, ApproveFrame>>

\* lines 777-875: the tier3_planned_execution_started event and the
\* specialist's proposal.
ApproveSpecialist(ok) ==
    /\ wk.pc = "t3_specialist"
    /\ audit' = audit + 1
    /\ wk' = [wk EXCEPT !.pc = IF ok THEN "t3_mutation" ELSE "t3_failed"]
    /\ last' = Did("approve", wk.root)
    /\ UNCHANGED <<tasks, mutations, pipe, ApproveFrame>>

\* lines 518-530: a failed assignment is counted and logged; the loop goes on.
ApproveAssignmentFailed ==
    /\ wk.pc = "t3_failed"
    /\ audit' = audit + 1
    /\ wk' = [wk EXCEPT !.pc = "assign", !.failed_executions = @ + 1]
    /\ last' = Did("approve", wk.root)
    /\ UNCHANGED <<tasks, mutations, pipe, ApproveFrame>>

\* lines 876-888: create_mutation for the proposal.
ApproveCreateMutation ==
    /\ wk.pc = "t3_mutation"
    /\ mutations' = Append(mutations, NewMutation(wk.current))
    /\ wk' = [wk EXCEPT !.pc = "t3_outcome"]
    /\ last' = Did("approve", wk.root)
    /\ UNCHANGED <<tasks, audit, pipe, ApproveFrame>>

\* lines 890-907: the assignment is parked for review.
ApproveOutcome ==
    /\ wk.pc = "t3_outcome"
    /\ tasks' = UpdateTaskOutcome(tasks, wk.current, "paused", Some(40), Some(70), ReadyNote)
    /\ wk' = [wk EXCEPT !.pc = "t3_audit"]
    /\ last' = Did("approve", wk.root)
    /\ UNCHANGED <<mutations, audit, pipe, ApproveFrame>>

\* lines 909-921 and apply_mutations_for_task lines 690-708: the
\* tier3_planned_execution_completed event, then list the assignment's
\* mutations.
ApproveListMutations ==
    /\ wk.pc = "t3_audit"
    /\ audit' = audit + 1
    /\ wk' = [wk EXCEPT !.pc = "apply",
                        !.todo = SeqOfSet([i \in 1..Len(mutations) |-> i],
                                          {m \in DOMAIN mutations :
                                              /\ mutations[m].task_id = wk.current
                                              /\ mutations[m].status \in
                                                   {"proposed", "validated",
                                                    "validated_no_tests"}})]
    /\ last' = Did("approve", wk.root)
    /\ UNCHANGED <<tasks, mutations, pipe, ApproveFrame>>

\* apply_mutations_for_task lines 710-720: run_mutation_pipeline on the next
\* listed mutation, with tier1_approved = true.
ApproveRunPipeline(r) ==
    /\ wk.pc = "apply"
    /\ wk.todo # <<>>
    /\ pipe[r].pc = "idle"
    /\ \A q \in Runs : q < r => pipe[q].pc # "idle"
    /\ pipe' = [pipe EXCEPT ![r] = Entered(@, Head(wk.todo), TRUE)]
    /\ wk' = [wk EXCEPT !.pc = "pipeline"]
    /\ last' = Did("pipeline_start", wk.current)
    /\ UNCHANGED <<tasks, mutations, audit, ApproveFrame>>

\* apply_mutations_for_task lines 722-750: count the run that has returned.
ApproveTally(r) ==
    /\ wk.pc = "pipeline"
    /\ pipe[r].pc = "done"
    /\ LET applied == pipe[r].result = "ok" /\ pipe[r].failed = "none" IN
       wk' = [wk EXCEPT !.pc = "apply", !.todo = Tail(@),
                        !.applied_mutations = IF applied THEN @ + 1 ELSE @,
                        !.task_failed_runs = IF applied THEN @ ELSE @ + 1]
    /\ pipe' = [pipe EXCEPT ![r] = IdlePipe]
    /\ last' = Did("approve", wk.root)
    /\ UNCHANGED <<tasks, mutations, audit, ApproveFrame>>

\* lines 558-579: the assignment's tally, then the next assignment.
ApproveAssignmentDone ==
    /\ wk.pc = "apply"
    /\ wk.todo = <<>>
    /\ wk' = [wk EXCEPT !.pc = "assign",
                        !.failed_executions = IF wk.task_failed_runs > 0 THEN @ + 1 ELSE @]
    /\ last' = Did("approve", wk.root)
    /\ UNCHANGED <<tasks, mutations, audit, pipe, ApproveFrame>>

SummaryNote == <<"Executed= appliedMutations= failedExecutions=">>

\* The final status if any failure failed the root, whatever was applied.
FinalStatus_AnyFailureFails(applied_mutations, failed_executions) ==
    IF failed_executions > 0 THEN <<"failed", SummaryNote>>
    ELSE IF applied_mutations > 0 THEN <<"completed", NULL>>
    ELSE <<"paused", SummaryNote>>

\* lines 595-603
FinalStatus(applied_mutations, failed_executions) ==
    IF failed_executions > 0 /\ applied_mutations = 0 THEN <<"failed", SummaryNote>>
    ELSE IF failed_executions > 0 THEN <<"paused", SummaryNote>>
    ELSE IF applied_mutations > 0 THEN <<"completed", NULL>>
    ELSE <<"paused", SummaryNote>>

\* lines 605-613: the root's final status.
ApproveFinal ==
    /\ wk.pc = "final"
    /\ LET final == FinalStatus(wk.applied_mutations, wk.failed_executions) IN
       tasks' = UpdateTaskStatus(tasks, wk.root, final[1], final[2])
    /\ wk' = [wk EXCEPT !.pc = "final_audit"]
    /\ last' = Did("approve", wk.root)
    /\ UNCHANGED <<mutations, audit, pipe, ApproveFrame>>

\* lines 615-676: the orchestration_spawn_completed event, then return Ok.
ApproveFinalAudit ==
    /\ wk.pc = "final_audit"
    /\ audit' = audit + 1
    /\ wk' = [wk EXCEPT !.pc = "done", !.result = "ok"]
    /\ last' = Did("approve", wk.root)
    /\ UNCHANGED <<tasks, mutations, pipe, ApproveFrame>>

PlanReadyNote == <<"plan_ready: awaiting review approval before spawning agents">>

\* orchestrate_and_persist has left a root with NAssignments tier-3
\* assignments, all paused.  The operator's commands are aimed at the root.
InitApprove ==
    /\ tasks = [i \in 1..(NAssignments + 1) |->
                  IF i = RootTask
                  THEN [NewTask(0, 1, "paused", 8000) EXCEPT !.error_message = PlanReadyNote]
                  ELSE NewTask(RootTask, 3, "paused", 400)]
    /\ mutations = <<>>
    /\ audit = 0
    /\ NoPipeline
    /\ NoWorkers
    /\ NoBudget
    /\ ops = 0
    /\ last = NoOp

NextApprove ==
    \/ \E t \in DOMAIN tasks : ApproveStart(t)
    \/ ApproveRootExecuting
    \/ ApproveAuditStarted
    \/ ApproveNextAssignment
    \/ \E ok \in BOOLEAN : ApproveSpecialist(ok)
    \/ ApproveAssignmentFailed
    \/ ApproveCreateMutation
    \/ ApproveOutcome
    \/ ApproveListMutations
    \/ \E r \in Runs : ApproveRunPipeline(r)
    \/ \E r \in Runs : ApproveTally(r)
    \/ ApproveAssignmentDone
    \/ ApproveFinal
    \/ ApproveFinalAudit
    \/ \E r \in Runs, o \in {"validated", "validated_no_tests", "shadow_test",
                             "semantic_regression", "tier2_compliance"} :
          PipeValidate(r, o)
    \/ \E r \in Runs : PipeMark(r)
    \/ \E r \in Runs, o \in {"checksum_error", "no_git_dir", "normalize_error", "ready"} :
          PipeApplyPrepare(r, o)
    \/ \E r \in Runs, ok \in BOOLEAN : PipeApplyCheck(r, ok)
    \/ \E r \in Runs, ok \in BOOLEAN, c \in BOOLEAN : PipeGitApply(r, ok, c)
    \/ \E r \in Runs, ok \in BOOLEAN : PipeCommit(r, ok)
    \/ \E r \in Runs, ok \in BOOLEAN : PipeMarkApplied(r, ok)
    \/ \E r \in Runs : PipeTaskDone(r)
    \/ \E r \in Runs : PipeRejectMutation(r)
    \/ \E r \in Runs : PipeRejectAudit(r)
    \/ \E r \in Runs : PipeRejectTask(r)
    \/ \E a \in ControlActions, d \in BOOLEAN : ControlTaskCmd(RootTask, a, d)

SpecApprove == InitApprove /\ [][NextApprove]_vars

\* The operator's stop or pause is what the store holds for the task.
HaltedByOperator(row) ==
    \/ row.status = "failed" /\ row.error_message # NULL /\ row.error_message[1] = STOP_PREFIX
    \/ row.status = "paused" /\ row.error_message # NULL /\ row.error_message[1] = MARKER

\* C5: once the operator has stopped or paused the root task, the
\* approve_plan_and_spawn run on it starts no further assignment and no
\* further mutation application.
C5_NoWorkAfterStopOrPause ==
    [][(wk.pc \notin {"idle", "done"} /\ HaltedByOperator(tasks[wk.root]))
         => /\ wk'.started = wk.started
            /\ ~(wk.pc = "apply" /\ wk'.pc = "pipeline")]_vars

----------------------------------------------------------------------------
(* db/budget_requests.rs: resolve_budget_request *)

BudgetFrame == <<mutations, workingCopy, pipe, Workers, ops>>

\* lines 205-221: read the request, refuse one that is not pending, choose
\* the increment.
ResolveStart(c, q, decision, approved_increment, resume_task) ==
    /\ calls[c].pc = "idle"
    /\ \A b \in DOMAIN calls : b < c => calls[b].pc # "idle"
    /\ q \in DOMAIN requests
    /\ LET increment == IF approved_increment = NULL
                        THEN requests[q].requested_increment
                        ELSE approved_increment[1]
           call == [calls[c] EXCEPT !.req = q, !.decision = decision,
                                    !.resume_task = resume_task]
       IN calls' = [calls EXCEPT ![c] =
            IF requests[q].status # "pending"
            THEN [call EXCEPT !.pc = "done", !.result = "err"]
            ELSE IF decision = "reject" THEN [call EXCEPT !.pc = "mark_rejected"]
            ELSE IF increment <= 0 THEN [call EXCEPT !.pc = "done", !.result = "err"]
            ELSE [call EXCEPT !.pc = "increase", !.increment = increment]]
    /\ last' = Did("resolve_budget_request", requests[q].task_id)
    /\ UNCHANGED <<tasks, audit, requests, BudgetFrame>>

\* line 223: increase_task_budget.
ResolveIncrease(c) ==
    /\ calls[c].pc = "increase"
    /\ tasks' = IncreaseTaskBudget(tasks, requests[calls[c].req].task_id, calls[c].increment)
    /\ calls' = [calls EXCEPT ![c].pc = "mark_approved"]
    /\ last' = Did("resolve_budget_request", requests[calls[c].req].task_id)
    /\ UNCHANGED <<audit, requests, BudgetFrame>>

\* lines 224-245: the UPDATE that marks the request approved; it can fail.
ResolveMarkApproved(c, ok) ==
    /\ calls[c].pc = "mark_approved"
    /\ IF ok
       THEN /\ requests' = [requests EXCEPT ![calls[c].req].status = "approved",
                                            ![calls[c].req].approved_increment =
                                                Some(calls[c].increment)]
            /\ calls' = [calls EXCEPT ![c].pc = IF calls[c].resume_task THEN "resume"
                                                ELSE "audit"]
       ELSE /\ calls' = [calls EXCEPT ![c].pc = "done", ![c].result = "err"]
            /\ UNCHANGED requests
    /\ last' = Did("resolve_budget_request", requests[calls[c].req].task_id)
    /\ UNCHANGED <<tasks, audit, BudgetFrame>>

\* lines 247-258: control_task resume on the task alone; its error is returned.
ResolveResume(c) ==
    /\ calls[c].pc = "resume"
    /\ LET t == requests[calls[c].req].task_id
           new == ControlAll(tasks, <<t>>, "resume", "resume after budget approval")
       IN /\ tasks' = new
          /\ calls' = [calls EXCEPT ![c] = IF new = tasks
                                           THEN [@ EXCEPT !.pc = "done", !.result = "err"]
                                           ELSE [@ EXCEPT !.pc = "audit"]]
          /\ last' = Did("resolve_budget_request", t)
    /\ UNCHANGED <<audit, requests, BudgetFrame>>

\* lines 260-281: the UPDATE that marks the request rejected.
ResolveMarkRejected(c) ==
    /\ calls[c].pc = "mark_rejected"
    /\ requests' = [requests EXCEPT ![calls[c].req].status = "rejected",
                                    ![calls[c].req].approved_increment = NULL]
    /\ calls' = [calls EXCEPT ![c].pc = "audit"]
    /\ last' = Did("resolve_budget_request", requests[calls[c].req].task_id)
    /\ UNCHANGED <<tasks, audit, BudgetFrame>>

\* line 285 and commands.rs lines 158-173: re-read the request, record
\* task_budget_request_resolved, return Ok.
ResolveAudit(c) ==
    /\ calls[c].pc = "audit"
    /\ audit' = audit + 1
    /\ calls' = [calls EXCEPT ![c].pc = "done", ![c].result = "ok"]
    /\ last' = Did("resolve_budget_request", requests[calls[c].req].task_id)
    /\ UNCHANGED <<tasks, requests, BudgetFrame>>

\* create_budget_request, lines 90-139, without auto-approval
PendingRequest(t, increment) ==
    [task_id |-> t, status |-> "pending", requested_increment |-> increment,
     approved_increment |-> NULL]

\* ensure_budget_headroom has filed one request for the leaf; the leaf is
\* executing, or the operator has paused it.
InitBudget ==
    /\ \E leaf \in {NewTask(RootTask, 3, "executing", 800),
                     [NewTask(RootTask, 3, "paused", 800) EXCEPT
                         !.error_message = <<MARKER, "executing">>]} :
          tasks = (RootTask :> NewTask(0, 1, "executing", 8000)) @@ (LeafTask :> leaf)
    /\ requests = <<PendingRequest(LeafTask, 250)>>
    /\ calls = [c \in 1..NCalls |-> IdleCall]
    /\ mutations = <<>>
    /\ audit = 0
    /\ NoPipeline
    /\ NoWorkers
    /\ ops = 0
    /\ last = NoOp

NextBudget ==
    \/ \E c \in DOMAIN calls, q \in DOMAIN requests, d \in {"approve", "reject"},
          inc \in {NULL, Some(0), Some(100)}, resume \in BOOLEAN :
          ResolveStart(c, q, d, inc, resume)
    \/ \E c \in DOMAIN calls : ResolveIncrease(c)
    \/ \E c \in DOMAIN calls, ok \in BOOLEAN : ResolveMarkApproved(c, ok)
    \/ \E c \in DOMAIN calls : ResolveResume(c)
    \/ \E c \in DOMAIN calls : ResolveMarkRejected(c)
    \/ \E c \in DOMAIN calls : ResolveAudit(c)

SpecBudget == InitBudget /\ [][NextBudget]_vars

\* The budget the leaf was created with.
LeafBudget == NewTask(RootTask, 3, "executing", 800).token_budget

RECURSIVE ApprovedTotal(_, _)
ApprovedTotal(rs, t) ==
    IF rs = <<>> THEN 0
    ELSE ApprovedTotal(Tail(rs), t)
         + (IF Head(rs).task_id = t /\ Head(rs).status = "approved"
            THEN Head(rs).approved_increment[1] ELSE 0)

\* C6: whenever no resolve call is in flight, the task's budget is what it
\* was created with plus the approved_increment of each approved request:
\* nothing is added twice and nothing is added for a request still pending.
C6_BudgetMatchesApprovedRequests ==
    (\A c \in DOMAIN calls : calls[c].pc \in {"idle", "done"})
        => tasks[LeafTask].token_budget = LeafBudget + ApprovedTotal(requests, LeafTask)

----------------------------------------------------------------------------
(* Concurrent run_mutation_pipeline commands on one target project *)

Pipes == 1..NPipes

\* Two proposals of the same assignment wait in the mutation store.
InitPipes ==
    /\ tasks = (RootTask :> NewTask(0, 1, "executing", 8000)) @@ (LeafTask :> ProposedLeaf)
    /\ mutations = <<NewMutation(LeafTask), NewMutation(LeafTask)>>
    /\ audit = 0
    /\ workingCopy = [applied |-> <<>>, patch_files |-> {}, commits |-> {}]
    /\ pipe = [r \in Pipes |-> IdlePipe]
    /\ NoWorkers
    /\ NoBudget
    /\ ops = 0
    /\ last = NoOp

NextPipes ==
    \/ \E r \in Pipes, m \in DOMAIN mutations, a \in BOOLEAN : PipeStart(r, m, a)
    \/ \E r \in Pipes, o \in {"validated", "validated_no_tests", "shadow_test",
                             "semantic_regression", "tier2_compliance"} :
          PipeValidate(r, o)
    \/ \E r \in Pipes : PipeMark(r)
    \/ \E r \in Pipes : PipeGatePause(r)
    \/ \E r \in Pipes, o \in {"checksum_error", "no_git_dir", "normalize_error", "ready"} :
          PipeApplyPrepare(r, o)
    \/ \E r \in Pipes, ok \in BOOLEAN : PipeApplyCheck(r, ok)
    \/ \E r \in Pipes, ok \in BOOLEAN, c \in BOOLEAN : PipeGitApply(r, ok, c)
    \/ \E r \in Pipes, ok \in BOOLEAN : PipeCommit(r, ok)
    \/ \E r \in Pipes, ok \in BOOLEAN : PipeMarkApplied(r, ok)
    \/ \E r \in Pipes : PipeTaskDone(r)
    \/ \E r \in Pipes : PipeRejectMutation(r)
    \/ \E r \in Pipes : PipeRejectAudit(r)
    \/ \E r \in Pipes : PipeRejectTask(r)

SpecPipes == InitPipes /\ [][NextPipes]_vars

\* The run is inside apply_and_commit_mutation: it has written its patch file
\* and has not yet returned.
Applying(run) == run.pc \in {"apply_check", "git_apply", "commit"}

\* C11: at no time are two pipeline runs applying a patch to the working
\* copy of the target project.
C11_ApplySerialised ==
    Cardinality({r \in DOMAIN pipe : Applying(pipe[r])}) <= 1

----------------------------------------------------------------------------
(* task_runtime.rs: ensure_budget_headroom *)

\* budget_headroom_percent, budget_auto_max_percent, budget_min_increment:
\* the values used when the environment overrides none of them.
HEADROOM_PERCENT == 25
AUTO_MAX_PERCENT == 40
MIN_INCREMENT == 250
\* required = planned_tokens.max(80)
MIN_REQUIRED == 80

Max(a, b) == IF a >= b THEN a ELSE b
Min(a, b) == IF a <= b THEN a ELSE b

\* ((budget.max(1) as f64) * (percent / 100.0)).ceil()
CeilPercent(budget, percent) == (Max(budget, 1) * percent + 99) \div 100

\* lines 114-115
HeadroomThreshold(budget, planned_tokens) ==
    Max(Max(planned_tokens, MIN_REQUIRED), CeilPercent(budget, HEADROOM_PERCENT))

\* suggested_increment, lines 181-185
SuggestedIncrement(current_budget, remaining, required, min_increment) ==
    Max(Max(Max(required - remaining, 0), CeilPercent(current_budget, 25)),
        Max(min_increment, 50))

\* get_latest_pending_request_for_task(..).is_some()
HasPendingRequest(rs, t) ==
    \E q \in DOMAIN rs : rs[q].task_id = t /\ rs[q].status = "pending"

HbFrame == <<mutations, workingCopy, pipe, ck, wk, dl, rev, bridge, ctl, rt, gp, calls, ops>>

\* The audit event an ensure_budget_headroom call at an audit step is about
\* to write (lines 130-137, 160-176), with the row of its task and the budget
\* requests at that moment.
HbEvent ==
    [action |-> CASE hb.pc = "audit_pending" -> "token_budget_increase_pending"
                  [] hb.auto_approve -> "token_budget_auto_increase_applied"
                  [] OTHER -> "token_budget_increase_requested",
     task |-> hb.task, row |-> tasks[hb.task], requests |-> requests]

\* lines 105-107: the call, and the early return for planned_tokens = 0.
HeadroomEntry(t, planned_tokens) ==
    [IdleHeadroom EXCEPT !.pc = IF planned_tokens = 0 THEN "done" ELSE "read",
                         !.task = t, !.planned_tokens = planned_tokens,
                         !.result = IF planned_tokens = 0 THEN "ok" ELSE "none",
                         !.n = hb.n + 1, !.noted = hb.noted]

\* A worker calls ensure_budget_headroom for the task t.
HbCall(t, planned_tokens) ==
    /\ hb.pc \in {"idle", "done"}
    /\ hb.n < MaxCalls
    /\ t \in DOMAIN tasks
    /\ hb' = HeadroomEntry(t, planned_tokens)
    /\ last' = Did("ensure_budget_headroom", t)
    /\ UNCHANGED <<tasks, audit, requests, HbFrame>>

\* lines 109-120: read the task, compare what remains with the threshold.
HbRead ==
    /\ hb.pc = "read"
    /\ LET task == tasks[hb.task]
           remaining == task.token_budget - task.token_usage
           threshold == HeadroomThreshold(task.token_budget, hb.planned_tokens)
       IN hb' = IF remaining >= threshold
                THEN [hb EXCEPT !.pc = "done", !.result = "ok"]
                ELSE [hb EXCEPT !.pc = "pending", !.budget = task.token_budget,
                                !.remaining = remaining, !.threshold = threshold]
    /\ last' = Did("ensure_budget_headroom", hb.task)
    /\ UNCHANGED <<tasks, audit, requests, HbFrame>>

\* lines 122-125 and 141-143: is a request of this task pending?  If not,
\* choose the increment; auto-approval needs the switch of the environment
\* (on unless AOP_AUTO_APPROVE_BUDGET_REQUESTS turns it off).
HbPending(enabled) ==
    /\ hb.pc = "pending"
    /\ LET inc == SuggestedIncrement(hb.budget, hb.remaining, hb.threshold, MIN_INCREMENT)
       IN hb' = IF HasPendingRequest(requests, hb.task)
                THEN [hb EXCEPT !.pc = "audit_pending"]
                ELSE [hb EXCEPT !.pc = "create", !.increment = inc, !.enabled = enabled,
                                !.auto_approve =
                                    enabled /\ inc <= CeilPercent(hb.budget, AUTO_MAX_PERCENT)]
    /\ last' = Did("ensure_budget_headroom", hb.task)
    /\ UNCHANGED <<tasks, audit, requests, HbFrame>>

\* lines 126-139: the token_budget_increase_pending audit event, return Ok.
HbAuditPending ==
    /\ hb.pc = "audit_pending"
    /\ audit' = audit + 1
    /\ hb' = [hb EXCEPT !.pc = "done", !.result = "ok", !.noted = <<HbEvent>>]
    /\ last' = Did("ensure_budget_headroom", hb.task)
    /\ UNCHANGED <<tasks, requests, HbFrame>>

\* create_budget_request, db/budget_requests.rs lines 90-121: the INSERT.
HbCreate ==
    /\ hb.pc = "create"
    /\ requests' = Append(requests, PendingRequest(hb.task, hb.increment))
    /\ hb' = [hb EXCEPT !.pc = IF hb.auto_approve THEN "resolve" ELSE "audit",
                        !.request = Len(requests) + 1]
    /\ last' = Did("ensure_budget_headroom", hb.task)
    /\ UNCHANGED <<tasks, audit, HbFrame>>

\* create_budget_request lines 123-136 -> resolve_budget_request lines
\* 205-223: the request is read again and must still be pending; then
\* increase_task_budget.
HbResolve ==
    /\ hb.pc = "resolve"
    /\ IF requests[hb.request].status # "pending"
       THEN /\ hb' = [hb EXCEPT !.pc = "done", !.result = "err"]
            /\ UNCHANGED tasks
       ELSE /\ tasks' = IncreaseTaskBudget(tasks, hb.task, hb.increment)
            /\ hb' = [hb EXCEPT !.pc = "mark_approved"]
    /\ last' = Did("ensure_budget_headroom", hb.task)
    /\ UNCHANGED <<audit, requests, HbFrame>>

\* resolve_budget_request lines 224-245: the UPDATE that marks the request
\* approved; it can fail, and the error is returned by `?` at line 159.
HbMarkApproved(ok) ==
    /\ hb.pc = "mark_approved"
    /\ IF ok
       THEN /\ requests' = [requests EXCEPT ![hb.request].status = "approved",
                                            ![hb.request].approved_increment =
                                                Some(hb.increment)]
            /\ hb' = [hb EXCEPT !.pc = "audit"]
       ELSE /\ hb' = [hb EXCEPT !.pc = "done", !.result = "err"]
            /\ UNCHANGED requests
    /\ last' = Did("ensure_budget_headroom", hb.task)
    /\ UNCHANGED <<tasks, audit, HbFrame>>

\* lines 161-177: token_budget_auto_increase_applied or
\* token_budget_increase_requested, return Ok.
HbAudit ==
    /\ hb.pc = "audit"
    /\ audit' = audit + 1
    /\ hb' = [hb EXCEPT !.pc = "done", !.result = "ok", !.noted = <<HbEvent>>]
    /\ last' = Did("ensure_budget_headroom", hb.task)
    /\ UNCHANGED <<tasks, requests, HbFrame>>

HbSteps ==
    \/ HbRead
    \/ \E enabled \in BOOLEAN : HbPending(enabled)
    \/ HbAuditPending
    \/ HbCreate
    \/ HbResolve
    \/ \E ok \in BOOLEAN : HbMarkApproved(ok)
    \/ HbAudit

CkSteps ==
    \/ CkRead
    \/ CkAuditPause
    \/ CkSleep
    \/ CkAuditStop
    \/ CkAuditResume

----------------------------------------------------------------------------
(* agents/domain_leader.rs: execute_domain_task *)

Domains == {"auth", "database", "frontend", "api", "platform"}

\* personas_for_domain, lines 648-662
PersonasForDomain(domain) ==
    CASE domain = "auth" -> <<"security_analyst">>
      [] domain = "database" -> <<"database_optimizer">>
      [] domain = "frontend" -> <<"react_specialist">>
      [] domain = "api" -> <<"api_engineer">>
      [] OTHER -> <<"generalist">>

\* distribute_budget_for_specialists, lines 664-684: 90% of the budget in
\* equal shares, the remainder handed out one token at a time from the front.
DistributeBudgetForSpecialists(tier2_budget, specialists) ==
    IF specialists = 0 THEN <<>>
    ELSE LET available == (Max(tier2_budget, 1) * 9) \div 10
             base == Max(available \div specialists, 1)
             extra == Max(available - base * specialists, 0)
         IN [i \in 1..specialists |->
                base + (extra \div specialists)
                     + (IF i <= extra % specialists THEN 1 ELSE 0)]

\* specialist.rs estimate_tokens_used, lines 250-264
EstimateTokensUsed(estimate, token_budget) == Max(Min(estimate, token_budget), 40)

\* detect_conflict, lines 916-949: no conflict among fewer than two
\* proposals; otherwise the largest semantic distance between two of them
\* (in hundredths) must exceed 0.3.
DetectConflict(proposals, distance) == Len(proposals) >= 2 /\ distance > 30

\* The status if a run without proposals were not blocked.
SummarizeStatus_NeverBlocked(proposals, conflict) ==
    IF conflict THEN "consensus_failed" ELSE "ready_for_review"

\* summarize_status, lines 951-959
SummarizeStatus(proposals, conflict) ==
    IF proposals = <<>> THEN "blocked"
    ELSE IF conflict THEN "consensus_failed"
    ELSE "ready_for_review"

\* compute_compliance_score, lines 961-978; risk_points is
\* ((1.0 - risk_factor.clamp(0.0, 1.0)) * 20.0) as i64.
ComputeComplianceScore(risk_points, proposals, status) ==
    LET score == 55 + Len(proposals) * 12 + risk_points
                 - (IF status = "consensus_failed" THEN 18
                    ELSE IF status = "blocked" THEN 30 ELSE 0)
    IN Max(0, Min(score, 100))

ReviewNote == <<"ready_for_review: proposals generated; run mutation pipeline to apply code.">>
BlockedNote == <<"blocked: no valid specialist proposals were produced.">>
ConsensusNote == <<"consensus_failed: human review required before apply.">>

DomainFrame == <<workingCopy, pipe, wk, rev, bridge, ctl, rt, gp, calls, ops>>

Domain(t) == Did("execute_domain_task", t)

\* The top of the loop over personas (line 157), or the code after it.
LoopHead(run) == IF run.idx <= Len(run.personas) THEN "persona_queue" ELSE "outcome"

\* `continue`, or the end of the loop body.
NextPersona(run) ==
    LET next == [run EXCEPT !.idx = @ + 1, !.specialist = 0, !.tokens_used = 0]
    IN [next EXCEPT !.pc = LoopHead(next)]

\* cooperative_checkpoint(task_id) is entered (task_runtime.rs line 36).
CheckpointEntry(t) ==
    [pc |-> "read", task |-> t, observed_pause |-> FALSE, result |-> "none",
     n |-> ck.n + 1, noted |-> ck.noted]

\* lines 62-83: the task is read; only a tier-2 task is accepted.
DomainStart(t, domain) ==
    /\ dl.pc = "idle"
    /\ t \in DOMAIN tasks
    /\ dl' = IF tasks[t].tier # 2
             THEN [dl EXCEPT !.pc = "done", !.task = t, !.result = "err"]
             ELSE [dl EXCEPT !.pc = "set_executing", !.task = t,
                             !.budget = tasks[t].token_budget,
                             !.personas = PersonasForDomain(domain)]
    /\ last' = Domain(t)
    /\ UNCHANGED <<tasks, mutations, audit, ck, hb, requests, DomainFrame>>

\* lines 91-99: the task is set executing, whatever it was.
DomainExecuting ==
    /\ dl.pc = "set_executing"
    /\ tasks' = UpdateTaskStatus(tasks, dl.task, "executing", NULL)
    /\ dl' = [dl EXCEPT !.pc = "audit_started"]
    /\ last' = Domain(dl.task)
    /\ UNCHANGED <<mutations, audit, ck, hb, requests, DomainFrame>>

\* lines 100-112: tier2_execution_started
DomainAuditStarted ==
    /\ dl.pc = "audit_started"
    /\ audit' = audit + 1
    /\ dl' = [dl EXCEPT !.pc = "audit_context"]
    /\ last' = Domain(dl.task)
    /\ UNCHANGED <<tasks, mutations, ck, hb, requests, DomainFrame>>

\* lines 114-155: the context (no shared state), tier2_context_ready, the
\* budgets of the specialists; the loop starts.
DomainAuditContext ==
    /\ dl.pc = "audit_context"
    /\ audit' = audit + 1
    /\ LET run == [dl EXCEPT !.specialist_budgets =
                                 DistributeBudgetForSpecialists(dl.budget, Len(dl.personas)),
                             !.idx = 1]
       IN dl' = [run EXCEPT !.pc = LoopHead(run)]
    /\ last' = Domain(dl.task)
    /\ UNCHANGED <<tasks, mutations, ck, hb, requests, DomainFrame>>

\* lines 158-164: the checkpoint persona_<p>_queue on the tier-2 task.
DomainQueueCheckpoint ==
    /\ dl.pc = "persona_queue"
    /\ ck' = CheckpointEntry(dl.task)
    /\ dl' = [dl EXCEPT !.pc = "persona_queue_wait"]
    /\ last' = Domain(dl.task)
    /\ UNCHANGED <<tasks, mutations, audit, hb, requests, DomainFrame>>

\* line 164: the checkpoint returned; `?` ends the run on Err.
DomainQueueReturn ==
    /\ dl.pc = "persona_queue_wait"
    /\ ck.pc = "done"
    /\ dl' = IF ck.result = "ok"
             THEN [dl EXCEPT !.pc = "budget_check",
                             !.blocked_at = IF ck.observed_pause THEN @ \cup {dl.idx}
                                            ELSE @]
             ELSE [dl EXCEPT !.pc = "done", !.result = "err"]
    /\ last' = Domain(dl.task)
    /\ UNCHANGED <<tasks, mutations, audit, ck, hb, requests, DomainFrame>>

\* lines 165-172: ensure_budget_headroom for the specialist's share.
DomainBudgetCheck ==
    /\ dl.pc = "budget_check"
    /\ hb' = HeadroomEntry(dl.task, dl.specialist_budgets[dl.idx])
    /\ dl' = [dl EXCEPT !.pc = "budget_wait"]
    /\ last' = Domain(dl.task)
    /\ UNCHANGED <<tasks, mutations, audit, ck, requests, DomainFrame>>

DomainBudgetReturn ==
    /\ dl.pc = "budget_wait"
    /\ hb.pc = "done"
    /\ dl' = IF hb.result = "ok" THEN [dl EXCEPT !.pc = "create_specialist"]
             ELSE [dl EXCEPT !.pc = "done", !.result = "err"]
    /\ last' = Domain(dl.task)
    /\ UNCHANGED <<tasks, mutations, audit, ck, hb, requests, DomainFrame>>

\* lines 196-211: the tier-3 task of the persona, pending, under the tier-2
\* task.
DomainCreateSpecialist ==
    /\ dl.pc = "create_specialist"
    /\ LET id == Cardinality(DOMAIN tasks) + 1
       IN /\ tasks' = tasks @@ (id :> NewTask(dl.task, 3, "pending",
                                               dl.specialist_budgets[dl.idx]))
          /\ dl' = [dl EXCEPT !.pc = "audit_created", !.specialist = id]
    /\ last' = Domain(dl.task)
    /\ UNCHANGED <<mutations, audit, ck, hb, requests, DomainFrame>>

\* lines 212-222: tier3_task_created
DomainAuditCreated ==
    /\ dl.pc = "audit_created"
    /\ audit' = audit + 1
    /\ dl' = [dl EXCEPT !.pc = "pre_execute"]
    /\ last' = Domain(dl.task)
    /\ UNCHANGED <<tasks, mutations, ck, hb, requests, DomainFrame>>

\* lines 238-244: the checkpoint persona_<p>_pre_execute on the tier-3 task.
DomainPreCheckpoint ==
    /\ dl.pc = "pre_execute"
    /\ ck' = CheckpointEntry(dl.specialist)
    /\ dl' = [dl EXCEPT !.pc = "pre_execute_wait"]
    /\ last' = Domain(dl.task)
    /\ UNCHANGED <<tasks, mutations, audit, hb, requests, DomainFrame>>

DomainPreReturn ==
    /\ dl.pc = "pre_execute_wait"
    /\ ck.pc = "done"
    /\ dl' = IF ck.result = "ok" THEN [dl EXCEPT !.pc = "specialist_executing"]
             ELSE [dl EXCEPT !.pc = "done", !.result = "err"]
    /\ last' = Domain(dl.task)
    /\ UNCHANGED <<tasks, mutations, audit, ck, hb, requests, DomainFrame>>

\* lines 245-253: the tier-3 task is set executing.
DomainSpecialistExecuting ==
    /\ dl.pc = "specialist_executing"
    /\ tasks' = UpdateTaskStatus(tasks, dl.specialist, "executing", NULL)
    /\ dl' = [dl EXCEPT !.pc = "audit_specialist"]
    /\ last' = Domain(dl.task)
    /\ UNCHANGED <<mutations, audit, ck, hb, requests, DomainFrame>>

\* lines 254-294: specialist_execution_started, then run_specialist_task
\* (synchronous): a proposal with its tokens_used, or an error.
DomainAuditSpecialist(ok, estimate) ==
    /\ dl.pc = "audit_specialist"
    /\ audit' = audit + 1
    /\ dl' = IF ok
             THEN [dl EXCEPT !.pc = "post_execute",
                             !.tokens_used =
                                 EstimateTokensUsed(estimate, dl.specialist_budgets[dl.idx])]
             ELSE [dl EXCEPT !.pc = "specialist_failed"]
    /\ last' = Domain(dl.task)
    /\ UNCHANGED <<tasks, mutations, ck, hb, requests, DomainFrame>>

\* lines 307-313: the checkpoint persona_<p>_post_execute on the tier-2 task.
DomainPostCheckpoint ==
    /\ dl.pc = "post_execute"
    /\ ck' = CheckpointEntry(dl.task)
    /\ dl' = [dl EXCEPT !.pc = "post_execute_wait"]
    /\ last' = Domain(dl.task)
    /\ UNCHANGED <<tasks, mutations, audit, hb, requests, DomainFrame>>

\* lines 314, 326: on Ok the tokens are added up; on Err the tier-3 task is
\* failed next.
DomainPostReturn ==
    /\ dl.pc = "post_execute_wait"
    /\ ck.pc = "done"
    /\ dl' = IF ck.result = "ok"
             THEN [dl EXCEPT !.pc = "task_usage", !.tokens_spent = @ + dl.tokens_used]
             ELSE [dl EXCEPT !.pc = "specialist_stopped"]
    /\ last' = Domain(dl.task)
    /\ UNCHANGED <<tasks, mutations, audit, ck, hb, requests, DomainFrame>>

\* lines 315-324: the tier-3 task fails with the checkpoint's error; continue.
DomainSpecialistStopped ==
    /\ dl.pc = "specialist_stopped"
    /\ tasks' = UpdateTaskStatus(tasks, dl.specialist, "failed", <<"checkpoint">>)
    /\ dl' = NextPersona(dl)
    /\ last' = Domain(dl.task)
    /\ UNCHANGED <<mutations, audit, ck, hb, requests, DomainFrame>>

\* lines 327-340: the tier-2 task is written executing with the tokens spent.
DomainTaskUsage ==
    /\ dl.pc = "task_usage"
    /\ tasks' = UpdateTaskOutcome(tasks, dl.task, "executing", Some(dl.tokens_spent),
                                  NULL, NULL)
    /\ dl' = [dl EXCEPT !.pc = "create_mutation"]
    /\ last' = Domain(dl.task)
    /\ UNCHANGED <<mutations, audit, ck, hb, requests, DomainFrame>>

\* lines 342-354: the proposal becomes a mutation of the tier-2 task.
DomainCreateMutation ==
    /\ dl.pc = "create_mutation"
    /\ mutations' = Append(mutations, NewMutation(dl.task))
    /\ dl' = [dl EXCEPT !.pc = "specialist_completed",
                        !.created = Append(@, dl.personas[dl.idx])]
    /\ last' = Domain(dl.task)
    /\ UNCHANGED <<tasks, audit, ck, hb, requests, DomainFrame>>

\* lines 356-369: the tier-3 task is completed with the proposal's tokens.
DomainSpecialistCompleted ==
    /\ dl.pc = "specialist_completed"
    /\ tasks' = UpdateTaskOutcome(tasks, dl.specialist, "completed", Some(dl.tokens_used),
                                  NULL, NULL)
    /\ dl' = [dl EXCEPT !.pc = "audit_persisted"]
    /\ last' = Domain(dl.task)
    /\ UNCHANGED <<mutations, audit, ck, hb, requests, DomainFrame>>

\* lines 370-385: specialist_proposal_persisted; proposals.push.
DomainAuditPersisted ==
    /\ dl.pc = "audit_persisted"
    /\ audit' = audit + 1
    /\ dl' = NextPersona([dl EXCEPT !.proposals = Append(@, dl.personas[dl.idx])])
    /\ last' = Domain(dl.task)
    /\ UNCHANGED <<tasks, mutations, ck, hb, requests, DomainFrame>>

\* lines 387-411: run_specialist_task failed: the tier-3 task fails.
DomainSpecialistFailed ==
    /\ dl.pc = "specialist_failed"
    /\ tasks' = UpdateTaskOutcome(tasks, dl.specialist, "failed", Some(0), NULL,
                                  <<"specialist">>)
    /\ dl' = [dl EXCEPT !.pc = "audit_failed"]
    /\ last' = Domain(dl.task)
    /\ UNCHANGED <<mutations, audit, ck, hb, requests, DomainFrame>>

\* lines 412-428: specialist_execution_failed
DomainAuditFailed ==
    /\ dl.pc = "audit_failed"
    /\ audit' = audit + 1
    /\ dl' = NextPersona(dl)
    /\ last' = Domain(dl.task)
    /\ UNCHANGED <<tasks, mutations, ck, hb, requests, DomainFrame>>

\* lines 431-473: the review gate: paused for review, or failed when no
\* proposal was produced.
DomainOutcome(risk_points, distance) ==
    /\ dl.pc = "outcome"
    /\ LET conflict == DetectConflict(dl.proposals, distance)
           status == SummarizeStatus(dl.proposals, conflict)
           score == ComputeComplianceScore(risk_points, dl.proposals, status)
       IN /\ tasks' = UpdateTaskOutcome(tasks, dl.task,
                          IF status = "ready_for_review" THEN "paused"
                          ELSE IF status = "blocked" THEN "failed"
                          ELSE "paused",
                          Some(dl.tokens_spent), Some(score),
                          CASE status = "ready_for_review" -> ReviewNote
                            [] status = "blocked" -> BlockedNote
                            [] OTHER -> ConsensusNote)
          /\ dl' = [dl EXCEPT !.pc = "audit_gate", !.conflict = conflict,
                              !.status = status]
    /\ last' = Domain(dl.task)
    /\ UNCHANGED <<mutations, audit, ck, hb, requests, DomainFrame>>

\* lines 474-498: tier2_review_gate, return Ok.
DomainAuditGate ==
    /\ dl.pc = "audit_gate"
    /\ audit' = audit + 1
    /\ dl' = [dl EXCEPT !.pc = "done", !.result = "ok"]
    /\ last' = Domain(dl.task)
    /\ UNCHANGED <<tasks, mutations, ck, hb, requests, DomainFrame>>

DomainSteps ==
    \/ DomainExecuting
    \/ DomainAuditStarted
    \/ DomainAuditContext
    \/ DomainQueueCheckpoint
    \/ DomainQueueReturn
    \/ DomainBudgetCheck
    \/ DomainBudgetReturn
    \/ DomainCreateSpecialist
    \/ DomainAuditCreated
    \/ DomainPreCheckpoint
    \/ DomainPreReturn
    \/ DomainSpecialistExecuting
    \/ \E ok \in BOOLEAN, estimate \in {60, 5000} : DomainAuditSpecialist(ok, estimate)
    \/ DomainPostCheckpoint
    \/ DomainPostReturn
    \/ DomainSpecialistStopped
    \/ DomainTaskUsage
    \/ DomainCreateMutation
    \/ DomainSpecialistCompleted
    \/ DomainAuditPersisted
    \/ DomainSpecialistFailed
    \/ DomainAuditFailed
    \/ \E risk_points \in {0, 20}, distance \in {10, 60} : DomainOutcome(risk_points, distance)
    \/ DomainAuditGate

\* A tier-2 task as create_task made it (db/tasks.rs line 133: pending).
DomainTask == 2
PendingDomainTask(budget) == NewTask(RootTask, 2, "pending", budget)

\* A tier-2 task that ran before and waits at its review gate.
ReviewedDomainTask ==
    [NewTask(RootTask, 2, "paused", 800) EXCEPT
        !.token_usage = 120, !.compliance_score = 87, !.error_message = ReviewNote]

InitDomain ==
    /\ \E t2 \in {PendingDomainTask(800), PendingDomainTask(50), ReviewedDomainTask} :
          tasks = (RootTask :> NewTask(0, 1, "executing", 8000)) @@ (DomainTask :> t2)
    /\ requests \in {<<>>, <<PendingRequest(DomainTask, 250)>>}
    /\ calls = [c \in 1..NCalls |-> IdleCall]
    /\ mutations = <<>>
    /\ audit = 0
    /\ NoPipeline
    /\ NoWorkers
    /\ ops = 0
    /\ last = NoOp

NextDomain ==
    \/ \E t \in DOMAIN tasks, domain \in Domains : DomainStart(t, domain)
    \/ DomainSteps
    \/ CkSteps
    \/ HbSteps
    \/ \E a \in ControlActions, d \in BOOLEAN : ControlTaskCmd(DomainTask, a, d)

SpecDomain == InitDomain /\ [][NextDomain]_vars

\* The run waits for a checkpoint on its tier-2 task: persona_<p>_queue at the
\* boundary before a persona, persona_<p>_post_execute after its specialist.
AtTaskCheckpoint(run) == run.pc \in {"persona_queue_wait", "post_execute_wait"}

NoDuplicates(seq) == \A i, j \in DOMAIN seq : seq[i] = seq[j] => i = j

\* C12: when the checkpoint of a tier-2 run reads its task while the task is
\* paused, the run stays where it is (it blocks: no task, no mutation, no
\* move to another persona); a checkpoint at a persona boundary ends, when
\* the task is executing again, with the run going on at the same persona;
\* and no persona has its mutation created more than once.
C12_PauseBlocksRunResumesOnce ==
    [][/\ (AtTaskCheckpoint(dl) /\ ck.pc = "read" /\ tasks[dl.task].status = "paused"
              /\ ck' # ck)
          => (ck'.pc \in {"audit_pause", "sleep"} /\ dl' = dl /\ mutations' = mutations
                 /\ DOMAIN tasks' = DOMAIN tasks)
       /\ (dl.pc \in {"persona_queue", "persona_queue_wait"} /\ dl' # dl)
          => /\ dl'.idx = dl.idx /\ dl'.created = dl.created /\ mutations' = mutations
             /\ dl'.pc \in {"persona_queue_wait", "budget_check", "done"}
             /\ dl'.pc = "done" => dl'.result = "err"
       /\ NoDuplicates(dl'.created)
       /\ Len(mutations') = Len(dl'.created)]_vars

\* The run blocked at the boundary of its persona, was resumed, created that
\* persona's mutation and returned.
C12_Witness ==
    /\ dl.pc = "done" /\ dl.result = "ok"
    /\ 1 \in dl.blocked_at
    /\ dl.created = dl.personas

----------------------------------------------------------------------------
(* The ways a task row is created: commands.rs create_task, the plan of    *)
(* the orchestrator, execute_domain_task, request_mutation_revision.       *)

\* task creations by command or plan
MaxCreates == 2

\* db/tasks.rs validate_create_record_input, lines 491-509 (domain, objective
\* and risk_factor are taken as valid).
ValidCreateRecordInput(tier, token_budget) == tier \in 1..3 /\ token_budget > 0

\* db/tasks.rs create_task_record, lines 140-181: the row is inserted as given.
CreateTaskRecord(ts, parent_id, tier, status, token_budget) ==
    ts @@ ((Cardinality(DOMAIN ts) + 1) :> NewTask(parent_id, tier, status, token_budget))

TreeFrame == <<mutations, workingCopy, pipe, Workers, Budget>>

\* commands.rs create_task -> tasks::create_task, lines 123-138; parent_id 0
\* is None.
CreateTaskCmd(parent_id, tier, token_budget) ==
    /\ ops < MaxCreates
    /\ IF ValidCreateRecordInput(tier, token_budget)
       THEN tasks' = CreateTaskRecord(tasks, parent_id, tier, "pending", token_budget)
       ELSE UNCHANGED tasks
    /\ ops' = ops + 1
    /\ last' = Did("create_task", parent_id)
    /\ UNCHANGED <<audit, mutations, workingCopy, pipe, Workers, Budget>>

\* orchestrator.rs lines 1383-1411 (and 339-352): an assignment of the plan,
\* tier clamped to 2..3, paused, under the root; plan_assignment_created.
PlanAssignment(tier, token_budget) ==
    /\ ops < MaxCreates
    /\ tasks' = CreateTaskRecord(tasks, RootTask, Max(2, Min(tier, 3)), "paused",
                                 Max(token_budget, 1))
    /\ audit' = audit + 1
    /\ ops' = ops + 1
    /\ last' = Did("generate_plan", RootTask)
    /\ UNCHANGED <<mutations, workingCopy, pipe, Workers, Budget>>

----------------------------------------------------------------------------
(* mutation_revision.rs: request_mutation_revision *)

\* revision_budget, lines 176-179
RevisionBudget(parent_budget) ==
    Min(Max((Max(parent_budget, 1) * 35 + 50) \div 100, 250), 2000)

RevFrame == <<workingCopy, pipe, ck, wk, dl, hb, bridge, ctl, rt, gp, Budget, ops>>

\* lines 36-44: the mutation is read; an applied one is refused; its task is
\* read.
RevStart(m) ==
    /\ rev.pc = "idle"
    /\ m \in DOMAIN mutations
    /\ rev' = IF mutations[m].status = "applied"
              THEN [rev EXCEPT !.pc = "done", !.mid = m, !.result = "err"]
              ELSE [rev EXCEPT !.pc = "create_task", !.mid = m,
                               !.parent_task = mutations[m].task_id]
    /\ last' = Did("request_mutation_revision", mutations[m].task_id)
    /\ UNCHANGED <<tasks, mutations, audit, RevFrame>>

\* lines 45-68: the revised task: tier 3, pending, under the mutation's task.
RevCreateTask ==
    /\ rev.pc = "create_task"
    /\ tasks' = CreateTaskRecord(tasks, rev.parent_task, 3, "pending",
                                 RevisionBudget(tasks[rev.parent_task].token_budget))
    /\ rev' = [rev EXCEPT !.pc = "create_mutation",
                          !.revised_task = Cardinality(DOMAIN tasks) + 1]
    /\ last' = Did("request_mutation_revision", rev.parent_task)
    /\ UNCHANGED <<mutations, audit, RevFrame>>

\* lines 70-116: run_specialist_task (its error is returned), then the
\* revised mutation of the revised task.
RevCreateMutation(ok) ==
    /\ rev.pc = "create_mutation"
    /\ IF ok
       THEN /\ mutations' = Append(mutations, NewMutation(rev.revised_task))
            /\ rev' = [rev EXCEPT !.pc = "reject_original"]
       ELSE /\ rev' = [rev EXCEPT !.pc = "done", !.result = "err"]
            /\ UNCHANGED mutations
    /\ last' = Did("request_mutation_revision", rev.parent_task)
    /\ UNCHANGED <<tasks, audit, RevFrame>>

\* lines 118-129: the original mutation is rejected.
RevRejectOriginal ==
    /\ rev.pc = "reject_original"
    /\ mutations' = UpdateMutationStatus(mutations, rev.mid, "rejected",
                                         <<"Revision requested: ", "note">>,
                                         <<"diff_reviewer_revision_requested">>)
    /\ rev' = [rev EXCEPT !.pc = "audit"]
    /\ last' = Did("request_mutation_revision", rev.parent_task)
    /\ UNCHANGED <<tasks, audit, RevFrame>>

\* lines 131-147: mutation_revision_requested, return Ok.
RevAudit ==
    /\ rev.pc = "audit"
    /\ audit' = audit + 1
    /\ rev' = [rev EXCEPT !.pc = "done", !.result = "ok"]
    /\ last' = Did("request_mutation_revision", rev.parent_task)
    /\ UNCHANGED <<tasks, mutations, RevFrame>>

\* A plan with a tier-2 and a tier-3 assignment, both run: the tier-2 task
\* waits at its review gate with its specialist's task completed
\* (execute_domain_task), the tier-3 assignment is parked for review
\* (execute_planned_tier3_task); each left one proposal in the mutation store.
SpecialistTask == 3
PlannedAssignment == 4

InitTree ==
    /\ tasks = (RootTask :> NewTask(0, 1, "executing", 8000))
               @@ (DomainTask :> ReviewedDomainTask)
               @@ (SpecialistTask :>
                      [NewTask(DomainTask, 3, "completed", 720) EXCEPT !.token_usage = 120])
               @@ (PlannedAssignment :> [ProposedLeaf EXCEPT !.parent_id = RootTask])
    /\ mutations = <<NewMutation(DomainTask), NewMutation(PlannedAssignment)>>
    /\ audit = 0
    /\ NoPipeline
    /\ NoWorkers
    /\ NoBudget
    /\ ops = 0
    /\ last = NoOp

NextTree ==
    \/ \E p \in {0} \cup DOMAIN tasks, tier \in 0..3, b \in {0, 500} : CreateTaskCmd(p, tier, b)
    \/ \E tier \in 1..3, b \in {0, 500} : PlanAssignment(tier, b)
    \/ \E m \in DOMAIN mutations : RevStart(m)
    \/ RevCreateTask
    \/ \E ok \in BOOLEAN : RevCreateMutation(ok)
    \/ RevRejectOriginal
    \/ RevAudit

SpecTree == InitTree /\ [][NextTree]_vars

\* C13: every task that has a parent has a parent of a strictly smaller
\* tier, and no tier-1 task has a parent.
C13_ParentTierBelowChild ==
    \A t \in DOMAIN tasks :
        /\ tasks[t].parent_id # 0
           => /\ tasks[t].parent_id \in DOMAIN tasks
              /\ tasks[tasks[t].parent_id].tier < tasks[t].tier
        /\ tasks[t].tier = 1 => tasks[t].parent_id = 0

----------------------------------------------------------------------------
(* agents/orchestrator.rs: the token budgets of a plan and what its        *)
(* execution accounts to the tasks                                         *)

\* validate_orchestration_input, line 1081
MIN_GLOBAL_TOKEN_BUDGET == 100

\* lines 223-224: ((global_token_budget as f32) * 0.10).round()
OverheadBudget(global_token_budget) == (global_token_budget + 5) \div 10
ReserveBudget(global_token_budget) == (global_token_budget + 5) \div 10

\* lines 225-227: saturating_sub
DistributedBudget(global_token_budget) ==
    Max(global_token_budget - (OverheadBudget(global_token_budget)
                               + ReserveBudget(global_token_budget)), 0)

RECURSIVE SumSeq(_)
SumSeq(seq) == IF seq = <<>> THEN 0 ELSE Head(seq) + SumSeq(Tail(seq))

\* allocate_token_budgets, lines 1912-1937: floor of the proportional share,
\* the remainder handed out one token at a time from the front.
AllocateTokenBudgets(distributed_budget, weights) ==
    IF weights = <<>> THEN <<>>
    ELSE LET n == Len(weights)
             total_weight == Max(SumSeq(weights), 1)
             floors == [i \in 1..n |-> (distributed_budget * weights[i]) \div total_weight]
             rest == Max(distributed_budget - SumSeq(floors), 0)
         IN [i \in 1..n |-> floors[i] + (rest \div n) + (IF i <= rest % n THEN 1 ELSE 0)]

\* orchestrate_and_persist, lines 229-244 and 339-352: the root carries the
\* overhead budget, each assignment its share of the distributed budget.
PlanTasks(global_token_budget) ==
    LET budgets == AllocateTokenBudgets(
                       Max(DistributedBudget(global_token_budget), 1),
                       [i \in 1..NAssignments |-> 1])
    IN [i \in 1..(NAssignments + 1) |->
          IF i = RootTask
          THEN [NewTask(0, 1, "paused", Max(OverheadBudget(global_token_budget), 1))
                   EXCEPT !.error_message = PlanReadyNote]
          ELSE NewTask(RootTask, 3, "paused", Max(budgets[i - 1], 1))]

GlobalTokenBudgets == {500, 10000}

InitPlan ==
    /\ \E g \in GlobalTokenBudgets :
          g >= MIN_GLOBAL_TOKEN_BUDGET /\ tasks = PlanTasks(g)
    /\ mutations = <<>>
    /\ audit = 0
    /\ NoPipeline
    /\ NoWorkers
    /\ NoBudget
    /\ ops = 0
    /\ last = NoOp

NextPlan ==
    \/ \E t \in DOMAIN tasks : ApproveStart(t)
    \/ ApproveRootExecuting
    \/ ApproveAuditStarted
    \/ ApproveNextAssignment
    \/ \E ok \in BOOLEAN : ApproveSpecialist(ok)
    \/ ApproveAssignmentFailed
    \/ ApproveCreateMutation
    \/ ApproveOutcome
    \/ ApproveListMutations
    \/ \E r \in Runs : ApproveRunPipeline(r)
    \/ \E r \in Runs : ApproveTally(r)
    \/ ApproveAssignmentDone
    \/ ApproveFinal
    \/ ApproveFinalAudit
    \/ \E r \in Runs, o \in {"validated", "validated_no_tests", "shadow_test",
                             "semantic_regression", "tier2_compliance"} :
          PipeValidate(r, o)
    \/ \E r \in Runs : PipeMark(r)
    \/ \E r \in Runs, o \in {"checksum_error", "no_git_dir", "normalize_error", "ready"} :
          PipeApplyPrepare(r, o)
    \/ \E r \in Runs, ok \in BOOLEAN : PipeApplyCheck(r, ok)
    \/ \E r \in Runs, ok \in BOOLEAN, c \in BOOLEAN : PipeGitApply(r, ok, c)
    \/ \E r \in Runs, ok \in BOOLEAN : PipeCommit(r, ok)
    \/ \E r \in Runs, ok \in BOOLEAN : PipeMarkApplied(r, ok)
    \/ \E r \in Runs : PipeTaskDone(r)
    \/ \E r \in Runs : PipeRejectMutation(r)
    \/ \E r \in Runs : PipeRejectAudit(r)
    \/ \E r \in Runs : PipeRejectTask(r)

SpecPlan == InitPlan /\ [][NextPlan]_vars

\* The token usage of the tasks of a tree, added up.
TreeUsage(ts, root) ==
    LET ids == CollectTaskTreeIds(ts, root)
    IN SumSeq([k \in 1..Len(ids) |-> ts[ids[k]].token_usage])

\* overhead_budget + reserve_budget + distributed_budget of the plan, read
\* back from the rows the plan created: the root holds the overhead budget
\* (the reserve is the same amount), the assignments share the distributed one.
PlanBudget(ts, root) ==
    LET ids == Tail(CollectTaskTreeIds(ts, root))
    IN 2 * ts[root].token_budget + SumSeq([k \in 1..Len(ids) |-> ts[ids[k]].token_budget])

\* C14: once approve_plan_and_spawn has returned, the token usage of the
\* tasks of the root's tree adds up to at most overhead_budget +
\* reserve_budget + distributed_budget.
C14_TreeUsageWithinPlanBudget ==
    (wk.pc = "done" /\ wk.result = "ok")
    => TreeUsage(tasks, wk.root) <= PlanBudget(tasks, wk.root)

----------------------------------------------------------------------------
(* mcp_bridge/client.rs: BridgeClient *)

\* now.duration_since(timestamp): zero when timestamp is later than now.
DurationSince(now, timestamp) == Max(now - timestamp, 0)

\* A limiter that forgets nothing.
PruneExpired_Never(call_timestamps, now) == call_timestamps

\* check_rate_limit_with_now, lines 159-165: pop the front while it is a
\* whole window old.
RECURSIVE PruneExpired(_, _)
PruneExpired(call_timestamps, now) ==
    IF call_timestamps # <<>>
       /\ DurationSince(now, Head(call_timestamps)) >= RateLimitWindow
    THEN PruneExpired(Tail(call_timestamps), now)
    ELSE call_timestamps

\* check_rate_limit_with_now, lines 153-176, under the mutex: the verdict
\* and the timestamps it leaves.
CheckRateLimitWithNow(call_timestamps, now, max_calls_per_minute) ==
    LET kept == PruneExpired(call_timestamps, now)
    IN IF Len(kept) >= max_calls_per_minute
       THEN [ok |-> FALSE, call_timestamps |-> kept]
       ELSE [ok |-> TRUE, call_timestamps |-> Append(kept, now)]

QueueFull_OffByOne(queued) == queued > MaxQueuedCalls + 1

\* reserve_call_slot, line 131
QueueFull(queued) == queued > MaxQueuedCalls

QueueError == <<"RATE_LIMIT_EXCEEDED", "queued MCP calls exceeded">>
RateError == <<"RATE_LIMIT_EXCEEDED", "MCP calls per minute">>

\* A call that has returned: its locals are gone.
Returned(result) == [IdleBridgeCall EXCEPT !.pc = "done", !.result = result]

BridgeFrame ==
    <<tasks, mutations, audit, workingCopy, pipe, ck, wk, dl, hb, rev, ctl, rt, gp, requests, calls,
      ops>>

Bridged == Did("bridge_call", 0)

\* The call c holds a permit of concurrent_calls (the BridgeCallGuard, or
\* the permit on its way into it).
HoldsPermit(c) == bridge.call[c].pc \in {"dequeue", "rate_limit", "spawn", "running"}

\* reserve_call_slot, line 130: queued_calls.fetch_add(1) + 1. The calls are
\* numbered in the order of their arrival.
BridgeEnter(c) ==
    /\ bridge.call[c].pc = "idle"
    /\ \A b \in 1..(c - 1) : bridge.call[b].pc # "idle"
    /\ bridge' = [bridge EXCEPT !.queued_calls = @ + 1,
                                !.call[c].pc = "queue_check",
                                !.call[c].queued = bridge.queued_calls + 1]
    /\ last' = Bridged
    /\ UNCHANGED BridgeFrame

\* lines 131-137: over the cap the call takes its count back and fails;
\* otherwise it goes on to wait for a permit.
BridgeQueueCheck(c) ==
    /\ bridge.call[c].pc = "queue_check"
    /\ bridge' = IF QueueFull(bridge.call[c].queued)
                 THEN [bridge EXCEPT !.queued_calls = @ - 1,
                                     !.call[c] = Returned(QueueError)]
                 ELSE [bridge EXCEPT !.call[c].pc = "acquire", !.call[c].queued = 0]
    /\ last' = Bridged
    /\ UNCHANGED BridgeFrame

\* A client without the semaphore.
BridgeAcquire_NoWait(c) ==
    /\ bridge.call[c].pc = "acquire"
    /\ bridge' = [bridge EXCEPT !.permits = @ - 1, !.call[c].pc = "dequeue"]
    /\ last' = Bridged
    /\ UNCHANGED BridgeFrame

\* lines 139-146: acquire_owned on concurrent_calls returns once a permit is
\* free.
BridgeAcquire(c) ==
    /\ bridge.call[c].pc = "acquire"
    /\ bridge.permits > 0
    /\ bridge' = [bridge EXCEPT !.permits = @ - 1, !.call[c].pc = "dequeue"]
    /\ last' = Bridged
    /\ UNCHANGED BridgeFrame

\* lines 148-149: queued_calls.fetch_sub(1), then Instant::now() as the
\* argument of check_rate_limit_with_now.
BridgeDequeue(c) ==
    /\ bridge.call[c].pc = "dequeue"
    /\ bridge' = [bridge EXCEPT !.queued_calls = @ - 1,
                                !.call[c].pc = "rate_limit",
                                !.call[c].now = bridge.clock]
    /\ last' = Bridged
    /\ UNCHANGED BridgeFrame

\* lines 149-150 and 153-176: the critical section of the rate limiter; on
\* Err the permit is dropped with the call's return.
BridgeRateLimit(c) ==
    /\ bridge.call[c].pc = "rate_limit"
    /\ LET verdict == CheckRateLimitWithNow(bridge.call_timestamps, bridge.call[c].now,
                                            MaxCallsPerMinute)
       IN bridge' = IF verdict.ok
                    THEN [bridge EXCEPT !.call_timestamps = verdict.call_timestamps,
                                        !.accepted = Append(@, bridge.clock),
                                        !.call[c].pc = "spawn",
                                        !.call[c].now = 0]
                    ELSE [bridge EXCEPT !.call_timestamps = verdict.call_timestamps,
                                        !.permits = @ + 1,
                                        !.call[c] = Returned(RateError)]
    /\ last' = Bridged
    /\ UNCHANGED BridgeFrame

\* lines 78-100: without the bridge directory the call fails; otherwise the
\* bridge process is started and awaited (a failure to start it is one of
\* the outcomes of BridgeFinish).
BridgeSpawn(c, exists) ==
    /\ bridge.call[c].pc = "spawn"
    /\ bridge' = IF exists
                 THEN [bridge EXCEPT !.call[c].pc = "running"]
                 ELSE [bridge EXCEPT !.permits = @ + 1,
                                     !.call[c] = Returned(<<"MCP bridge directory does not exist">>)]
    /\ last' = Bridged
    /\ UNCHANGED BridgeFrame

\* Ok(payload), or one of the errors of lines 100-126 (they differ in their
\* text only).
BridgeOutcomes == {<<"ok">>, <<"MCP bridge failed">>}

\* lines 100-126: the process has ended; whatever the call returns, the
\* guard is dropped at the end of call and the permit goes back.
BridgeFinish(c, outcome) ==
    /\ bridge.call[c].pc = "running"
    /\ bridge' = [bridge EXCEPT !.permits = @ + 1, !.call[c] = Returned(outcome)]
    /\ last' = Bridged
    /\ UNCHANGED BridgeFrame

\* Time passes.
BridgeTick ==
    /\ bridge.clock < MaxTime
    /\ bridge' = [bridge EXCEPT !.clock = @ + 1]
    /\ last' = Bridged
    /\ UNCHANGED BridgeFrame

InitBridge ==
    /\ bridge = NewBridgeClient(Max(MaxConcurrentCalls, 1), NBridgeCalls)
    /\ tasks = (RootTask :> NewTask(0, 1, "executing", 8000))
    /\ mutations = <<>>
    /\ audit = 0
    /\ NoPipeline
    /\ NoAgents
    /\ NoBudget
    /\ ops = 0
    /\ last = NoOp

NextBridge ==
    \/ \E c \in DOMAIN bridge.call : BridgeEnter(c)
    \/ \E c \in DOMAIN bridge.call : BridgeQueueCheck(c)
    \/ \E c \in DOMAIN bridge.call : BridgeAcquire(c)
    \/ \E c \in DOMAIN bridge.call : BridgeDequeue(c)
    \/ \E c \in DOMAIN bridge.call : BridgeRateLimit(c)
    \/ \E c \in DOMAIN bridge.call, exists \in BOOLEAN : BridgeSpawn(c, exists)
    \/ \E c \in DOMAIN bridge.call, outcome \in BridgeOutcomes : BridgeFinish(c, outcome)
    \/ BridgeTick

SpecBridge == InitBridge /\ [][NextBridge]_vars

\* The calls the rate limiter accepted at a time in [from, from + window).
AcceptedIn(from) ==
    {i \in DOMAIN bridge.accepted :
        from <= bridge.accepted[i] /\ bridge.accepted[i] < from + RateLimitWindow}

\* C15: in no window of RATE_LIMIT_WINDOW has the rate limiter accepted more
\* than max_calls_per_minute calls (so a call that follows max_calls_per_minute
\* accepted ones in their window is rejected).
C15_AtMostMaxCallsPerWindow ==
    \A from \in 0..MaxTime : Cardinality(AcceptedIn(from)) <= MaxCallsPerMinute

\* The calls that have started the bridge process and not yet seen it end.
InFlight == {c \in DOMAIN bridge.call : bridge.call[c].pc = "running"}

\* C16: no more than max_concurrent_calls bridge processes run at once; a
\* call that is about to start or has started the process holds a permit, and
\* every permit not held by a call is free again in the semaphore.
C16_AtMostMaxConcurrentInFlight ==
    /\ Cardinality(InFlight) <= MaxConcurrentCalls
    /\ \A c \in DOMAIN bridge.call : bridge.call[c].pc \in {"spawn", "running"} => HoldsPermit(c)
    /\ bridge.permits + Cardinality({c \in DOMAIN bridge.call : HoldsPermit(c)})
          = Max(MaxConcurrentCalls, 1)

C16_Witness ==
    /\ Cardinality(InFlight) = MaxConcurrentCalls
    /\ \E c \in DOMAIN bridge.call : bridge.call[c].pc = "acquire"
    /\ \E c \in DOMAIN bridge.call : bridge.call[c].pc = "done" /\ bridge.call[c].result # QueueError

\* The calls that wait for a permit.
Waiting == {c \in DOMAIN bridge.call : bridge.call[c].pc = "acquire"}

\* C17: a call that arrives when MAX_QUEUED_CALLS calls wait for a permit
\* returns RATE_LIMIT_EXCEEDED as its next step, without waiting for a permit,
\* and leaves queued_calls as it found it; no more than MAX_QUEUED_CALLS calls
\* wait.
C17_QueueCapFailsFast ==
    [][\A c \in DOMAIN bridge.call :
          /\ (bridge.call[c].pc = "idle" /\ bridge'.call[c].pc # "idle"
              /\ Cardinality(Waiting) >= MaxQueuedCalls)
             => bridge'.call[c].queued > MaxQueuedCalls
          /\ (bridge.call[c].pc = "queue_check" /\ bridge.call[c].queued > MaxQueuedCalls
              /\ bridge'.call[c] # bridge.call[c])
             => /\ bridge'.call[c].pc = "done"
                /\ bridge'.call[c].result = QueueError
                /\ bridge'.queued_calls = bridge.queued_calls - 1
                /\ bridge'.permits = bridge.permits
          /\ Cardinality({b \in DOMAIN bridge'.call : bridge'.call[b].pc = "acquire"})
                <= MaxQueuedCalls]_vars

C17_Witness ==
    /\ Cardinality(Waiting) = MaxQueuedCalls
    /\ bridge.permits = 0
    /\ bridge.queued_calls = MaxQueuedCalls
    /\ \E c \in DOMAIN bridge.call : bridge.call[c].result = QueueError

\* C18: a call whose timestamp is a whole window or more after every
\* timestamp the rate limiter holds is accepted, and the expired timestamps
\* are forgotten.
C18_AcceptsAfterWindowExpires ==
    [][\A c \in DOMAIN bridge.call :
          (/\ bridge.call[c].pc = "rate_limit"
           /\ bridge'.call[c] # bridge.call[c]
           /\ \A i \in DOMAIN bridge.call_timestamps :
                 bridge.call[c].now - bridge.call_timestamps[i] >= RateLimitWindow)
          => /\ bridge'.call[c].pc = "spawn"
             /\ bridge'.call_timestamps = <<bridge.call[c].now>>]_vars

\* The window was filled, a call was rejected for it, and more than a window
\* after the call that filled it a further call has been accepted.
C18_Witness ==
    /\ Len(bridge.accepted) = MaxCallsPerMinute + 1
    /\ \E c \in DOMAIN bridge.call : bridge.call[c].result = RateError
    /\ bridge.accepted[MaxCallsPerMinute + 1] - bridge.accepted[MaxCallsPerMinute]
          > RateLimitWindow

----------------------------------------------------------------------------
(* task_runtime.rs: cooperative_checkpoint and ensure_budget_headroom,     *)
(* called again and again by a worker                                      *)

\* A specialist task at work that has used most of its budget.
SpentLeaf == [NewTask(RootTask, 3, "executing", 800) EXCEPT !.token_usage = 700]

InitObserve ==
    /\ tasks = (RootTask :> NewTask(0, 1, "executing", 8000)) @@ (LeafTask :> SpentLeaf)
    /\ mutations = <<>>
    /\ audit = 0
    /\ NoPipeline
    /\ NoWorkers
    /\ requests \in {<<>>, <<PendingRequest(LeafTask, 250)>>}
    /\ calls = [c \in 1..NCalls |-> IdleCall]
    /\ ops = 0
    /\ last = NoOp

NextObserve ==
    \/ CkCall(LeafTask)
    \/ CkSteps
    \/ \E planned_tokens \in {0, 100} : HbCall(LeafTask, planned_tokens)
    \/ HbSteps
    \/ \E a \in ControlActions, d \in BOOLEAN : ControlTaskCmd(LeafTask, a, d)

SpecObserve == InitObserve /\ [][NextObserve]_vars

\* C19: a call of cooperative_checkpoint or ensure_budget_headroom does not
\* write the audit event the last call wrote when the task (and, for the
\* headroom, its budget requests) is as it was at that event.
C19_NoDuplicateObservation ==
    [][/\ (ck.pc \in {"audit_pause", "audit_stop", "audit_resume"} /\ audit' = audit + 1)
          => ck.noted # <<CkEvent>>
       /\ (hb.pc \in {"audit_pending", "audit"} /\ audit' = audit + 1)
          => hb.noted # <<HbEvent>>]_vars

----------------------------------------------------------------------------
(* Properties of Spec: the approval gate of run_mutation_pipeline *)

\* C20: a pipeline run with tier1_approved = false whose validation steps
\* have passed marks its mutation validated or validated_no_tests, then parks
\* its task as paused with the note 'Waiting for Tier 1 approval before
\* apply.' and returns Ok; neither step touches the working copy or goes on to
\* apply.
C20_UnapprovedRunStopsBeforeApply ==
    [][\A r \in Runs :
         (~pipe[r].approved /\ pipe[r].pc \in {"mark", "gate_pause"} /\ pipe'[r] # pipe[r])
         => /\ workingCopy' = workingCopy
            /\ ~pipe'[r].touched
            /\ pipe[r].pc = "mark"
               => /\ pipe'[r].pc = "gate_pause"
                  /\ mutations'[pipe[r].mid].status = pipe[r].shadow
                  /\ pipe[r].shadow \in {"validated", "validated_no_tests"}
            /\ pipe[r].pc = "gate_pause"
               => /\ pipe'[r].pc = "done"
                  /\ pipe'[r].result = "ok"
                  /\ mutations' = mutations
                  /\ tasks'[pipe[r].task].status = "paused"
                  /\ tasks'[pipe[r].task].error_message = WaitingNote]_vars

\* An unapproved run has returned and left its mutation validated and its
\* task parked.
C20_Witness ==
    \E r \in Runs :
        /\ pipe[r].pc = "done" /\ pipe[r].result = "ok" /\ ~pipe[r].approved
        /\ mutations[pipe[r].mid].status \in {"validated", "validated_no_tests"}
        /\ tasks[pipe[r].task].status = "paused"
        /\ tasks[pipe[r].task].error_message = WaitingNote
        /\ workingCopy.applied = <<>>

----------------------------------------------------------------------------
(* Properties of SpecPipes: the end of a successful run *)

\* C21: when an approved pipeline run none of whose steps failed returns Ok,
\* its mutation is applied with applied_at set, its task is completed with
\* compliance score 85, and the final update has raised the task's token
\* usage by exactly 450.
C21_SuccessfulRunOutcome ==
    [][\A r \in DOMAIN pipe :
         (pipe[r].pc # "done" /\ pipe'[r].pc = "done" /\ pipe'[r].result = "ok"
            /\ pipe'[r].failed = "none" /\ pipe[r].approved)
         => /\ mutations'[pipe[r].mid].status = "applied"
            /\ mutations'[pipe[r].mid].applied_at = "set"
            /\ tasks'[pipe[r].task].status = "completed"
            /\ tasks'[pipe[r].task].compliance_score = 85
            /\ tasks'[pipe[r].task].token_usage
                  = tasks[pipe[r].task].token_usage + PIPELINE_TOKENS]_vars

----------------------------------------------------------------------------
(* Properties of SpecBudget: resolved requests *)

\* C22: approved and rejected are terminal: a step of a resolve_budget_request
\* call taken when its request is approved or rejected changes neither the
\* budget requests nor any task's budget, and a call that starts on such a
\* request returns an error at once.
C22_ResolvedRequestIsTerminal ==
    [][\A c \in DOMAIN calls :
         (calls'[c] # calls[c]
            /\ requests[calls'[c].req].status \in {"approved", "rejected"})
         => /\ requests' = requests
            /\ \A t \in DOMAIN tasks : tasks'[t].token_budget = tasks[t].token_budget
            /\ calls[c].pc = "idle"
               => (calls'[c].pc = "done" /\ calls'[c].result = "err")]_vars

----------------------------------------------------------------------------
(* db/tasks.rs: control_task, one step for each query it awaits *)

ControlFrame ==
    <<mutations, workingCopy, pipe, ck, wk, dl, hb, rev, bridge, rt, gp, Budget, ops>>

\* lines 250-259: the reason of a stop.
StopReason(reason) == IF reason = NULL THEN "stopped by user" ELSE reason[1]

\* The loop skips the task whose row it has read (the `continue` of lines
\* 266, 283, 300, 316).
Skips(action, current) ==
    CASE action = "pause" -> current.status \in {"completed", "failed", "paused"}
      [] action = "resume" -> current.status # "paused"
      [] action = "stop" -> current.status \in {"completed", "failed"}
      [] OTHER -> current.status \notin {"failed", "completed", "paused"}

\* lines 236-260: the targets are collected.  The calls are numbered in the
\* order of their arrival.
CtlStart(c, t, action, descendants, reason) ==
    /\ ctl[c].pc = "idle"
    /\ \A b \in 1..(c - 1) : ctl[b].pc # "idle"
    /\ t \in DOMAIN tasks
    /\ ctl' = [ctl EXCEPT ![c] = [@ EXCEPT !.pc = "read", !.action = action,
                                           !.reason = StopReason(reason),
                                           !.todo = ControlTargets(tasks, t, descendants)]]
    /\ last' = Did("control_task", t)
    /\ UNCHANGED <<tasks, audit, ControlFrame>>

\* line 263: get_task_by_id for the next target.
CtlRead(c) ==
    /\ ctl[c].pc = "read"
    /\ ctl' = [ctl EXCEPT ![c].pc = "write", ![c].current = tasks[Head(ctl[c].todo)]]
    /\ last' = Did("control_task", Head(ctl[c].todo))
    /\ UNCHANGED <<tasks, audit, ControlFrame>>

\* lines 264-341: skip the target or write it, then go on to the next one.
CtlWrite(c) ==
    /\ ctl[c].pc = "write"
    /\ tasks' = ControlWrite(tasks, Head(ctl[c].todo), ctl[c].action, ctl[c].reason,
                             ctl[c].current)
    /\ ctl' = [ctl EXCEPT ![c].pc = IF Tail(ctl[c].todo) = <<>> THEN "finish" ELSE "read",
                          ![c].todo = Tail(@),
                          ![c].updated = IF Skips(ctl[c].action, ctl[c].current)
                                         THEN @ ELSE @ + 1]
    /\ last' = Did("control_task", Head(ctl[c].todo))
    /\ UNCHANGED <<audit, ControlFrame>>

\* lines 345-360 and commands.rs lines 86-102: an error when nothing was
\* updated, the task_control audit event otherwise.
CtlFinish(c) ==
    /\ ctl[c].pc = "finish"
    /\ audit' = IF ctl[c].updated = 0 THEN audit ELSE audit + 1
    /\ ctl' = [ctl EXCEPT ![c].pc = "done",
                          ![c].result = IF ctl[c].updated = 0 THEN "err" ELSE "ok"]
    /\ last' = Did("control_task", 0)
    /\ UNCHANGED <<tasks, ControlFrame>>

\* A specialist task in each of the five statuses.
ControlLeaves ==
    {PendingLeaf, PausedLeaf,
     [PendingLeaf EXCEPT !.status = "executing"],
     [PendingLeaf EXCEPT !.status = "completed"],
     [PendingLeaf EXCEPT !.status = "failed", !.error_message = Reason("apply")]}

InitControl ==
    /\ \E leaf \in ControlLeaves :
          tasks = (RootTask :> NewTask(0, 1, "executing", 8000)) @@ (LeafTask :> leaf)
    /\ mutations = <<>>
    /\ audit = 0
    /\ NoPipeline
    /\ ck = IdleCheckpoint /\ wk = IdleApprove /\ dl = IdleDomain /\ hb = IdleHeadroom
    /\ rev = IdleRevision /\ bridge = NewBridgeClient(0, 0) /\ rt = NewRuntime /\ gp = IdlePlan
    /\ ctl = [c \in 1..NControl |-> IdleControl]
    /\ NoBudget
    /\ ops = 0
    /\ last = NoOp

NextControl ==
    \/ \E c \in DOMAIN ctl, t \in DOMAIN tasks, a \in ControlActions, d \in BOOLEAN,
          reason \in {NULL, Some("out of scope")} : CtlStart(c, t, a, d, reason)
    \/ \E c \in DOMAIN ctl : CtlRead(c)
    \/ \E c \in DOMAIN ctl : CtlWrite(c)
    \/ \E c \in DOMAIN ctl : CtlFinish(c)

SpecControl == InitControl /\ [][NextControl]_vars

\* The task t is as it was, and so is every other task.
OnlyChanged(t) == \A u \in DOMAIN tasks \ {t} : tasks'[u] = tasks[u]

\* C23: a stop sets every target that it does not find completed or failed,
\* a paused one included, to failed with stopped_by_user:<reason> in
\* error_message, and writes nothing to a target it finds completed or failed;
\* it visits every target before it returns.
C23_StopFailsNonTerminal ==
    [][\A c \in DOMAIN ctl :
         /\ (ctl[c].action = "stop" /\ ctl[c].pc = "write" /\ ctl'[c] # ctl[c])
            => LET t == Head(ctl[c].todo) IN
               IF ctl[c].current.status \in {"completed", "failed"}
               THEN tasks' = tasks
               ELSE /\ tasks'[t] = [tasks[t] EXCEPT
                                      !.status = "failed",
                                      !.error_message = <<STOP_PREFIX, ctl[c].reason>>]
                    /\ OnlyChanged(t)
         /\ (ctl[c].pc # "done" /\ ctl'[c].pc = "done") => ctl[c].todo = <<>>]_vars

\* A stop has failed a task it found paused, with the operator's reason.
C23_Witness ==
    \E c \in DOMAIN ctl :
        /\ ctl[c].action = "stop" /\ ctl[c].pc = "done" /\ ctl[c].result = "ok"
        /\ ctl[c].current.status = "paused"
        /\ tasks[LeafTask].status = "failed"
        /\ tasks[LeafTask].error_message = <<STOP_PREFIX, "out of scope">>

\* C24: a restart writes only to a target it finds failed, completed or
\* paused: the write sets the status to pending, clears error_message and adds
\* exactly one to the stored retry_count, whatever other restarts have written
\* since the row was read; a target found pending or executing is not written.
C24_RestartCountsEachRestart ==
    [][\A c \in DOMAIN ctl :
         (ctl[c].action = "restart" /\ ctl[c].pc = "write" /\ ctl'[c] # ctl[c])
         => LET t == Head(ctl[c].todo) IN
            IF ctl[c].current.status \in {"failed", "completed", "paused"}
            THEN /\ tasks'[t] = [tasks[t] EXCEPT
                                   !.status = "pending", !.error_message = NULL,
                                   !.retry_count = tasks[t].retry_count + 1]
                 /\ OnlyChanged(t)
            ELSE tasks' = tasks]_vars

\* Two restarts both read the failed task before either wrote, and both
\* increments are in the stored retry_count.
C24_Witness ==
    /\ \A c \in DOMAIN ctl :
          /\ ctl[c].action = "restart" /\ ctl[c].pc = "done"
          /\ ctl[c].current.status = "failed" /\ ctl[c].current.retry_count = 0
    /\ tasks[LeafTask].status = "pending"
    /\ tasks[LeafTask].error_message = NULL
    /\ tasks[LeafTask].retry_count = NControl

----------------------------------------------------------------------------
(* runtime_config.rs, commands.rs set_runtime_flags / get_runtime_flags,   *)
(* and the flag readers of task_runtime.rs                                 *)

RuntimeFrame ==
    <<tasks, mutations, audit, workingCopy, pipe, ck, wk, dl, hb, rev, bridge, ctl, gp,
      requests, calls, ops>>

Clamp(value, lo, hi) == Max(lo, Min(value, hi))

\* RuntimeFlags::apply_update, runtime_config.rs lines 51-76, for the flags
\* of the task runtime: None keeps the value, Some(v) sets it, clamped.
ApplyUpdate(flags, input) ==
    [auto_approve_budget_requests |->
        IF input.auto_approve_budget_requests = NULL
        THEN flags.auto_approve_budget_requests
        ELSE input.auto_approve_budget_requests[1],
     budget_headroom_percent |->
        IF input.budget_headroom_percent = NULL THEN flags.budget_headroom_percent
        ELSE Clamp(input.budget_headroom_percent[1], 1, 95),
     budget_auto_max_percent |->
        IF input.budget_auto_max_percent = NULL THEN flags.budget_auto_max_percent
        ELSE Clamp(input.budget_auto_max_percent[1], 5, 100),
     budget_min_increment |->
        IF input.budget_min_increment = NULL THEN flags.budget_min_increment
        ELSE Clamp(input.budget_min_increment[1], 50, 100000)]

\* task_runtime.rs lines 187-221: what the task runtime makes of the i-th
\* variable when it reads it from the environment.
ParseEnv(env, i) ==
    CASE i = 1 -> env[1] \in {"1", "true", "yes", "on"}
      [] i = 2 -> Clamp(env[2], 1, 95)
      [] i = 3 -> Clamp(env[3], 5, 100)
      [] OTHER -> Max(env[4], 50)

\* ensure_budget_headroom reads budget_headroom_percent, budget_auto_max_percent
\* and budget_min_increment (lines 112-114), then
\* auto_approve_budget_requests_enabled (line 143).
ReadOrder == <<2, 3, 4, 1>>

\* The configuration a reader of the task runtime has put together.
Observed(seen) ==
    [auto_approve_budget_requests |-> seen[4], budget_headroom_percent |-> seen[1],
     budget_auto_max_percent |-> seen[2], budget_min_increment |-> seen[3]]

FlagInputs ==
    [auto_approve_budget_requests : {NULL, Some(FALSE)},
     budget_headroom_percent : {NULL, Some(50)},
     budget_auto_max_percent : {NULL, Some(100)},
     budget_min_increment : {NULL, Some(10)}]

Flagged == Did("runtime_flags", 0)

\* commands.rs lines 652-657: the write lock is taken and apply_update changes
\* the flags behind it.
SetRuntimeFlags(input) ==
    /\ rt.set.pc = "idle"
    /\ rt.n < MaxUpdates
    /\ LET flags == ApplyUpdate(rt.flags, input)
       IN rt' = [rt EXCEPT !.flags = flags, !.history = @ \cup {flags},
                           !.set = [pc |-> "sync", i |-> 1], !.n = @ + 1]
    /\ last' = Flagged
    /\ UNCHANGED RuntimeFrame

\* sync_to_process_env, runtime_config.rs lines 78-106: one std::env::set_var;
\* after the last one set_runtime_flags returns and the write lock is dropped.
SetSync ==
    /\ rt.set.pc = "sync"
    /\ rt' = [rt EXCEPT !.env[rt.set.i] = EnvValue(rt.flags, rt.set.i),
                        !.set = IF rt.set.i = Len(FlagVars)
                                THEN [pc |-> "idle", i |-> 0]
                                ELSE [pc |-> "sync", i |-> rt.set.i + 1]]
    /\ last' = Flagged
    /\ UNCHANGED RuntimeFrame

\* commands.rs get_runtime_flags, lines 639-645: the read lock (not while a
\* writer holds the lock) and a clone of the flags.
GetRuntimeFlags ==
    /\ rt.set.pc = "idle"
    /\ rt' = [rt EXCEPT !.got = Some(rt.flags)]
    /\ last' = Flagged
    /\ UNCHANGED RuntimeFrame

\* An ensure_budget_headroom call comes to its flag readers.
ReaderStart ==
    /\ rt.reader.pc \in {"idle", "done"}
    /\ rt' = [rt EXCEPT !.reader = [pc |-> "read", seen |-> <<>>]]
    /\ last' = Flagged
    /\ UNCHANGED RuntimeFrame

\* One std::env::var of the task runtime; it takes no lock of the flags.
ReaderRead ==
    /\ rt.reader.pc = "read"
    /\ LET seen == Append(rt.reader.seen, ParseEnv(rt.env, ReadOrder[Len(rt.reader.seen) + 1]))
       IN rt' = [rt EXCEPT !.reader = [pc |-> IF Len(seen) = Len(ReadOrder)
                                              THEN "done" ELSE "read",
                                       seen |-> seen]]
    /\ last' = Flagged
    /\ UNCHANGED RuntimeFrame

InitFlags ==
    /\ tasks = (RootTask :> NewTask(0, 1, "executing", 8000))
    /\ mutations = <<>>
    /\ audit = 0
    /\ NoPipeline
    /\ NoWorkers
    /\ NoBudget
    /\ ops = 0
    /\ last = NoOp

NextFlags ==
    \/ \E input \in FlagInputs : SetRuntimeFlags(input)
    \/ SetSync
    \/ GetRuntimeFlags
    \/ ReaderStart
    \/ ReaderRead

SpecFlags == InitFlags /\ [][NextFlags]_vars

\* C25: what a reader of the runtime configuration has read is one of the
\* configurations that have been in force: get_runtime_flags returns one, and
\* the flags the task runtime has read make up one.
C25_ReadersSeeOneConfiguration ==
    /\ rt.got # NULL => rt.got[1] \in rt.history
    /\ rt.reader.pc = "done" => Observed(rt.reader.seen) \in rt.history

----------------------------------------------------------------------------
(* agents/orchestrator.rs: generate_plan, and the entry points that are     *)
(* given the id of an existing task                                        *)

\* tasks of the longest plan the model returns
MaxPlanTasks == 81

GenFrame == <<mutations, workingCopy, pipe, ck, wk, dl, hb, rev, bridge, ctl, rt, Budget, ops>>

Generated(t) == Did("generate_plan", t)

\* The plans of the model, as the tiers it gave its tasks; the tier is the
\* model's word (line 1384 clamps it).
PlanShapes == {<<>>, <<2>>, <<3, 1>>, [i \in 1..MaxPlanTasks |-> 3]}

\* lines 1367-1371: a task of tier 2 or less weighs 2.0, the others 1.0
PlanWeights(plan) == [i \in DOMAIN plan |-> IF plan[i] <= 2 THEN 2 ELSE 1]

\* lines 1254-1284: the input is validated (budgets are below 2^24, where
\* the f32 of lines 1361-1362 holds them exactly); the task of root_task_id
\* is not read.
GenStart(t, global_token_budget) ==
    /\ gp.pc = "idle"
    /\ t \in DOMAIN tasks
    /\ gp' = IF global_token_budget < MIN_GLOBAL_TOKEN_BUDGET
             THEN [gp EXCEPT !.pc = "done", !.root = t, !.result = "err"]
             ELSE [gp EXCEPT !.pc = "set_executing", !.root = t,
                             !.global_token_budget = global_token_budget]
    /\ last' = Generated(t)
    /\ UNCHANGED <<tasks, audit, GenFrame>>

\* lines 1286-1294: the task is set executing.
GenExecuting ==
    /\ gp.pc = "set_executing"
    /\ tasks' = UpdateTaskStatus(tasks, gp.root, "executing", NULL)
    /\ gp' = [gp EXCEPT !.pc = "audit_started"]
    /\ last' = Generated(gp.root)
    /\ UNCHANGED <<audit, GenFrame>>

\* lines 1296-1309: plan_generation_started
GenAuditStarted ==
    /\ gp.pc = "audit_started"
    /\ audit' = audit + 1
    /\ gp' = [gp EXCEPT !.pc = "llm"]
    /\ last' = Generated(gp.root)
    /\ UNCHANGED <<tasks, GenFrame>>

\* lines 1339-1373: the model answers. A failed call goes on to mark the task;
\* an answer that does not parse, or an empty plan, is returned as the error;
\* a plan has its budgets allocated.
GenLlm(ok, plan) ==
    /\ gp.pc = "llm"
    /\ gp' = IF ~ok THEN [gp EXCEPT !.pc = "llm_failed"]
             ELSE IF plan = <<>> THEN [gp EXCEPT !.pc = "done", !.result = "err"]
             ELSE [gp EXCEPT !.pc = "assign", !.plan = plan,
                      !.budgets = AllocateTokenBudgets(
                                      Max(DistributedBudget(gp.global_token_budget), 1),
                                      PlanWeights(plan))]
    /\ last' = Generated(gp.root)
    /\ UNCHANGED <<tasks, audit, GenFrame>>

\* lines 1345-1355: the task is marked failed and the error returned.
GenLlmFailed ==
    /\ gp.pc = "llm_failed"
    /\ tasks' = UpdateTaskStatus(tasks, gp.root, "failed", <<"LLM plan generation failed">>)
    /\ gp' = [gp EXCEPT !.pc = "done", !.result = "err"]
    /\ last' = Generated(gp.root)
    /\ UNCHANGED <<audit, GenFrame>>

\* lines 1378-1411: the row of the next assignment, tier clamped to 2..3,
\* paused, under the task, with at least one token.
GenAssign ==
    /\ gp.pc = "assign"
    /\ LET idx == Len(gp.created) + 1
       IN /\ tasks' = CreateTaskRecord(tasks, gp.root, Max(2, Min(gp.plan[idx], 3)),
                                       "paused", Max(gp.budgets[idx], 1))
          /\ gp' = [gp EXCEPT !.pc = "audit_assignment",
                              !.created = Append(@, Cardinality(DOMAIN tasks) + 1)]
    /\ last' = Generated(gp.root)
    /\ UNCHANGED <<audit, GenFrame>>

\* lines 1413-1441: plan_assignment_created, and the assignment that is
\* returned carries budgets[idx].
GenAuditAssignment ==
    /\ gp.pc = "audit_assignment"
    /\ audit' = audit + 1
    /\ LET assignments == Append(gp.assignments, gp.budgets[Len(gp.created)])
       IN gp' = [gp EXCEPT !.assignments = assignments,
                           !.pc = IF Len(assignments) < Len(gp.plan)
                                  THEN "assign" ELSE "plan_ready"]
    /\ last' = Generated(gp.root)
    /\ UNCHANGED <<tasks, GenFrame>>

\* lines 1443-1453: the task is parked for the review of the plan.
GenPlanReady ==
    /\ gp.pc = "plan_ready"
    /\ tasks' = UpdateTaskStatus(tasks, gp.root, "paused",
                                 <<"plan_ready: LLM-generated plan awaiting review approval">>)
    /\ gp' = [gp EXCEPT !.pc = "audit_completed"]
    /\ last' = Generated(gp.root)
    /\ UNCHANGED <<audit, GenFrame>>

\* lines 1455-1476: plan_generation_completed, Ok(GeneratedPlan).
GenAuditCompleted ==
    /\ gp.pc = "audit_completed"
    /\ audit' = audit + 1
    /\ gp' = [gp EXCEPT !.pc = "done", !.result = "ok"]
    /\ last' = Generated(gp.root)
    /\ UNCHANGED <<tasks, GenFrame>>

GenSteps ==
    \/ GenExecuting
    \/ GenAuditStarted
    \/ \E ok \in BOOLEAN, plan \in PlanShapes : GenLlm(ok, plan)
    \/ GenLlmFailed
    \/ GenAssign
    \/ GenAuditAssignment
    \/ GenPlanReady
    \/ GenAuditCompleted

\* A root parked by analyze_objective (lines 1216-1224), a tier-2 task and a tier-3
\* task of an earlier plan under it.
AnalysedRoot ==
    [NewTask(0, 1, "paused", 8000) EXCEPT
        !.error_message = <<"analysis_complete: awaiting user answers">>]

InitEntry ==
    /\ \E t2 \in {PendingDomainTask(800), PendingDomainTask(50), ReviewedDomainTask} :
          tasks = (RootTask :> AnalysedRoot)
                  @@ (DomainTask :> t2)
                  @@ (SpecialistTask :> NewTask(RootTask, 3, "paused", 400))
    /\ requests \in {<<>>, <<PendingRequest(DomainTask, 250)>>}
    /\ calls = [c \in 1..NCalls |-> IdleCall]
    /\ mutations = <<>>
    /\ audit = 0
    /\ NoPipeline
    /\ NoWorkers
    /\ ops = 0
    /\ last = NoOp

\* No entry point has been called yet: the model follows one call at a time.
Quiet == wk.pc = "idle" /\ dl.pc = "idle" /\ gp.pc = "idle"

NextEntry ==
    \/ Quiet /\ \E t \in DOMAIN tasks, g \in {50, 100, 10000} : GenStart(t, g)
    \/ GenSteps
    \/ Quiet /\ \E t \in DOMAIN tasks : ApproveStart(t)
    \/ ApproveRootExecuting
    \/ ApproveAuditStarted
    \/ ApproveNextAssignment
    \/ \E ok \in BOOLEAN : ApproveSpecialist(ok)
    \/ ApproveAssignmentFailed
    \/ ApproveCreateMutation
    \/ ApproveOutcome
    \/ ApproveListMutations
    \/ \E r \in Runs : ApproveRunPipeline(r)
    \/ \E r \in Runs : ApproveTally(r)
    \/ ApproveAssignmentDone
    \/ ApproveFinal
    \/ ApproveFinalAudit
    \/ \E r \in Runs, o \in {"validated", "validated_no_tests", "shadow_test",
                             "semantic_regression", "tier2_compliance"} :
          PipeValidate(r, o)
    \/ \E r \in Runs : PipeMark(r)
    \/ \E r \in Runs, o \in {"checksum_error", "no_git_dir", "normalize_error", "ready"} :
          PipeApplyPrepare(r, o)
    \/ \E r \in Runs, ok \in BOOLEAN : PipeApplyCheck(r, ok)
    \/ \E r \in Runs, ok \in BOOLEAN, c \in BOOLEAN : PipeGitApply(r, ok, c)
    \/ \E r \in Runs, ok \in BOOLEAN : PipeCommit(r, ok)
    \/ \E r \in Runs, ok \in BOOLEAN : PipeMarkApplied(r, ok)
    \/ \E r \in Runs : PipeTaskDone(r)
    \/ \E r \in Runs : PipeRejectMutation(r)
    \/ \E r \in Runs : PipeRejectAudit(r)
    \/ \E r \in Runs : PipeRejectTask(r)
    \/ Quiet /\ \E t \in DOMAIN tasks, domain \in {"auth"} : DomainStart(t, domain)
    \/ DomainSteps
    \/ CkSteps
    \/ HbSteps
    \/ dl.pc \notin {"idle", "done"}
       /\ \E a \in ControlActions : ControlTaskCmd(DomainTask, a, FALSE)

SpecEntry == InitEntry /\ [][NextEntry]_vars

\* C26: a step of an entry point that was given an existing task of the
\* wrong tier changes no task and leaves the call returned with an error:
\* approve_plan_and_spawn and generate_plan on a task that is not tier 1,
\* execute_domain_task on a task that is not tier 2.
C26_WrongTierFailsBeforeChange ==
    [][/\ (wk' # wk /\ tasks[wk'.root].tier # 1)
          => (tasks' = tasks /\ wk'.pc = "done" /\ wk'.result = "err")
       /\ (gp' # gp /\ tasks[gp'.root].tier # 1)
          => (tasks' = tasks /\ gp'.pc = "done" /\ gp'.result = "err")
       /\ (dl' # dl /\ tasks[dl'.task].tier # 2)
          => (tasks' = tasks /\ dl'.pc = "done" /\ dl'.result = "err")]_vars

\* The token budgets of the rows created for the assignments of the plan.
PersistedBudgets == [k \in DOMAIN gp.created |-> tasks[gp.created[k]].token_budget]

\* C27: when generate_plan has returned its plan for a root task, the token
\* budgets of the assignments it returns add up to distributed_budget, and
\* so do the token budgets of the child tasks persisted for them.
C27_AssignmentBudgetsSumToDistributed ==
    (gp.pc = "done" /\ gp.result = "ok" /\ tasks[gp.root].tier = 1)
    => /\ SumSeq(gp.assignments) = DistributedBudget(gp.global_token_budget)
       /\ SumSeq(PersistedBudgets) = DistributedBudget(gp.global_token_budget)

----------------------------------------------------------------------------
(* Properties of SpecPlan: the root's final status *)

\* C28: the step of approve_plan_and_spawn that sets the root's final status
\* sets it completed if and only if at least one mutation was applied and no
\* assignment failed, failed if and only if an assignment failed and nothing
\* was applied, and paused in every other case.
C28_FinalStatusFromCounts ==
    [][(wk.pc = "final" /\ wk'.pc # "final")
       => LET status == tasks'[wk.root].status
              applied == wk.applied_mutations > 0
              failures == wk.failed_executions > 0
          IN /\ status = "completed" <=> (applied /\ ~failures)
             /\ status = "failed" <=> (failures /\ ~applied)
             /\ status = "paused" <=> ((failures /\ applied) \/ (~failures /\ ~applied))]_vars

\* The call has set the final status of a root with an applied mutation and
\* a failed assignment.
C28_Witness ==
    /\ wk.pc = "final_audit"
    /\ wk.applied_mutations > 0 /\ wk.failed_executions > 0
    /\ tasks[wk.root].status = "paused"

----------------------------------------------------------------------------
(* task_runtime.rs: the budget requests that ensure_budget_headroom opens  *)

\* A task whose 40 % is not a whole number of tokens, nearly spent, and one
\* whose budget is too small for the least increment to be within 40 %.
OddBudgetLeaf == [NewTask(RootTask, 3, "executing", 626) EXCEPT !.token_usage = 577]
SmallBudgetLeaf == [NewTask(RootTask, 3, "executing", 400) EXCEPT !.token_usage = 380]

InitHeadroom ==
    /\ \E leaf \in {SpentLeaf, OddBudgetLeaf, SmallBudgetLeaf} :
          tasks = (RootTask :> NewTask(0, 1, "executing", 8000)) @@ (LeafTask :> leaf)
    /\ mutations = <<>>
    /\ audit = 0
    /\ NoPipeline
    /\ NoWorkers
    /\ NoBudget
    /\ ops = 0
    /\ last = NoOp

NextHeadroom ==
    \/ \E planned_tokens \in {0, 100, 300} : HbCall(LeafTask, planned_tokens)
    \/ HbSteps

SpecHeadroom == InitHeadroom /\ [][NextHeadroom]_vars

\* C29: when an ensure_budget_headroom call that opened a request returns,
\* the request is approved if auto-approve was enabled and the increment is
\* at most AUTO_MAX_PERCENT percent of the budget the call read; otherwise
\* the request is pending and the task's budget is the one the call read;
\* either way the call returns Ok.
C29_AutoApprovedIffEnabledAndWithinCap ==
    [][(hb.pc # "done" /\ hb'.pc = "done" /\ hb.request # 0)
       => /\ hb'.result = "ok"
          /\ IF hb.enabled /\ hb.increment * 100 <= hb.budget * AUTO_MAX_PERCENT
             THEN requests'[hb.request].status = "approved"
             ELSE /\ requests'[hb.request].status = "pending"
                  /\ tasks'[hb.task].token_budget = hb.budget]_vars

----------------------------------------------------------------------------
(* Properties of SpecDomain: the status execute_domain_task reports *)

\* C30: the step of execute_domain_task that settles its outcome reports
\* blocked when no proposal was produced, consensus_failed when a conflict
\* was detected among the proposals, and ready_for_review otherwise; it
\* leaves the tier-2 task failed exactly when the result is blocked, and
\* paused in the other two cases; and the call returns that status.
C30_ReportedStatusAndTaskStatus ==
    [][/\ (dl.pc = "outcome" /\ dl'.pc # "outcome")
          => /\ dl'.status = IF dl.proposals = <<>> THEN "blocked"
                             ELSE IF dl'.conflict THEN "consensus_failed"
                             ELSE "ready_for_review"
             /\ tasks'[dl.task].status = "failed" <=> dl'.status = "blocked"
             /\ tasks'[dl.task].status = "paused" <=> dl'.status # "blocked"
       /\ (dl.pc = "audit_gate" /\ dl'.pc = "done")
          => (dl'.result = "ok" /\ dl'.status = dl.status)]_vars

\* A run whose specialist failed has returned blocked and left its task
\* failed.
C30_Witness ==
    /\ dl.pc = "done" /\ dl.result = "ok"
    /\ dl.status = "blocked"
    /\ tasks[dl.task].status = "failed"

----------------------------------------------------------------------------
(* agents/specialist.rs: the tokens_used of a proposal, in runs of          *)
(* execute_domain_task over tier-2 tasks of small and large budgets        *)

InitSpecialist ==
    /\ \E t2 \in {PendingDomainTask(800), PendingDomainTask(50), PendingDomainTask(30),
                  ReviewedDomainTask} :
          tasks = (RootTask :> NewTask(0, 1, "executing", 8000)) @@ (DomainTask :> t2)
    /\ requests \in {<<>>, <<PendingRequest(DomainTask, 250)>>}
    /\ calls = [c \in 1..NCalls |-> IdleCall]
    /\ mutations = <<>>
    /\ audit = 0
    /\ NoPipeline
    /\ NoWorkers
    /\ ops = 0
    /\ last = NoOp

SpecSpecialist == InitSpecialist /\ [][NextDomain]_vars

\* C31: the tokens_used of the proposal run_specialist_task returns is at
\* least 40 and at most the token_budget of the specialist's task.
C31_TokensUsedWithinBudget ==
    [][(dl.pc = "audit_specialist" /\ dl'.pc = "post_execute")
       => /\ dl'.tokens_used >= 40
          /\ dl'.tokens_used <= tasks[dl.specialist].token_budget]_vars

----------------------------------------------------------------------------
(* Properties of SpecTree: collect_task_tree_ids *)

\* How many parent links lead from t up to root; -1 if root is not among
\* the ancestors of t.
RECURSIVE DepthBelow(_, _, _)
DepthBelow(ts, t, root) ==
    IF t = root THEN 0
    ELSE IF ts[t].parent_id \notin DOMAIN ts THEN -1
    ELSE LET d == DepthBelow(ts, ts[t].parent_id, root)
         IN IF d = -1 THEN -1 ELSE d + 1

PositionIn(seq, x) == CHOOSE i \in DOMAIN seq : seq[i] = x

----------------------------------------------------------------------------
(* Properties of SpecDomain: the operator's pause and the leader's writes *)

PausedByOperator(row) ==
    row.status = "paused" /\ row.error_message # NULL /\ row.error_message[1] = MARKER

\* C33: while execute_domain_task runs on a tier-2 task that the operator has
\* paused, no step of the domain leader changes the task from paused to
\* executing: the task stays paused until a resume.
C33_LeaderKeepsOperatorPause ==
    [][(dl.pc \notin {"idle", "done"} /\ dl' # dl /\ PausedByOperator(tasks[dl.task]))
         => tasks'[dl.task].status # "executing"]_vars

StoppedByOperator(row) ==
    row.status = "failed" /\ row.error_message # NULL /\ row.error_message[1] = STOP_PREFIX

\* C34: when a run finishes on a task the operator has stopped (failed, with
\* a stopped_by_user reason), the task keeps that status and that reason:
\* neither the domain leader's final outcome write on the tier-2 task nor
\* approve_plan_and_spawn's final status write on the root changes them.
C34_FinalWriteKeepsOperatorStop ==
    [][/\ (dl.pc = "outcome" /\ dl' # dl /\ StoppedByOperator(tasks[dl.task]))
          => /\ tasks'[dl.task].status = "failed"
             /\ tasks'[dl.task].error_message = tasks[dl.task].error_message
       /\ (wk.pc = "final" /\ wk' # wk /\ StoppedByOperator(tasks[wk.root]))
          => /\ tasks'[wk.root].status = "failed"
             /\ tasks'[wk.root].error_message = tasks[wk.root].error_message]_vars

----------------------------------------------------------------------------
(* Properties of SpecEntry: what a returning call leaves behind *)

Settled(row) == row.status \in {"paused", "completed", "failed"}

\* C35: when generate_plan or approve_plan_and_spawn returns, with Ok or
\* with an error, the root it moved to executing and every assignment it
\* started are paused, completed or failed: none is left executing.
C35_ReturnLeavesNothingExecuting ==
    [][/\ (gp.pc \notin {"idle", "set_executing", "done"} /\ gp'.pc = "done")
          => Settled(tasks'[gp.root])
       /\ (wk.pc \notin {"idle", "done"} /\ wk'.pc = "done")
          => /\ Settled(tasks'[wk.root])
             /\ \A i \in DOMAIN wk'.started : Settled(tasks'[wk'.started[i]])]_vars

----------------------------------------------------------------------------
(* Properties of SpecPipes: how often a patch reaches the working copy *)

\* C36: the patch of a mutation is applied to the working copy at most once,
\* even when two pipeline runs work on the same mutation at the same time.
C36_PatchAppliedAtMostOnce ==
    \A i, j \in DOMAIN workingCopy.applied :
        workingCopy.applied[i] = workingCopy.applied[j] => i = j

----------------------------------------------------------------------------
(* Properties of SpecBudget: what a failed resolve_budget_request leaves *)

\* C37: a resolve_budget_request call that returns an error has changed
\* nothing: when it is the only call made, the task's budget is the one it
\* was created with and the request is still pending, also when the call
\* approved with resume_task = true and the task was not paused.
C37_ErrorMeansNothingChanged ==
    \A c \in DOMAIN calls :
        (/\ calls[c].pc = "done" /\ calls[c].result = "err"
         /\ \A b \in DOMAIN calls \ {c} : calls[b].pc = "idle")
        => /\ tasks[LeafTask].token_budget = LeafBudget
           /\ requests[calls[c].req] = PendingRequest(LeafTask, 250)

----------------------------------------------------------------------------
(* Property of every specification: usage against budget *)

\* C38: in every reachable state, no task has used more tokens than its
\* budget: token_usage <= token_budget, also after a specialist's tokens are
\* recorded on the task and after the pipeline has added its 450 tokens.
C38_UsageWithinBudget ==
    \A t \in DOMAIN tasks : tasks[t].token_usage <= tasks[t].token_budget

----------------------------------------------------------------------------
(* control_task: a pause, then a resume, on one task *)

\* A specialist task that is pending or executing, with or without a message
\* left in error_message by the update_task_status command (commands.rs lines
\* 70-76 take any status together with any message).
NotedLeaves ==
    {[PendingLeaf EXCEPT !.status = s, !.error_message = em] :
        s \in {"pending", "executing"}, em \in {NULL, <<"needs review">>}}

InitPauseResume ==
    /\ \E leaf \in NotedLeaves :
          tasks = (RootTask :> NewTask(0, 1, "executing", 8000)) @@ (LeafTask :> leaf)
    /\ mutations = <<>>
    /\ audit = 0
    /\ NoPipeline
    /\ ck = IdleCheckpoint /\ wk = IdleApprove /\ dl = IdleDomain /\ hb = IdleHeadroom
    /\ rev = IdleRevision /\ bridge = NewBridgeClient(0, 0) /\ rt = NewRuntime /\ gp = IdlePlan
    /\ ctl = [c \in 1..NControl |-> IdleControl]
    /\ NoBudget
    /\ ops = 0
    /\ last = NoOp

\* The operator's commands aim at the specialist task.
NextPauseResume ==
    \/ \E c \in DOMAIN ctl, a \in ControlActions, d \in BOOLEAN,
          reason \in {NULL, Some("out of scope")} : CtlStart(c, LeafTask, a, d, reason)
    \/ \E c \in DOMAIN ctl : CtlRead(c)
    \/ \E c \in DOMAIN ctl : CtlWrite(c)
    \/ \E c \in DOMAIN ctl : CtlFinish(c)

SpecPauseResume == InitPauseResume /\ [][NextPauseResume]_vars

\* The first call paused the task, the second resumed it and no other call
\* was made; the row the pause read is the task as it was before the pause.
PausedThenResumed ==
    /\ ctl[1].pc = "done" /\ ctl[1].action = "pause" /\ ctl[1].result = "ok"
    /\ ctl[2].pc = "done" /\ ctl[2].action = "resume" /\ ctl[2].result = "ok"
    /\ \A c \in DOMAIN ctl \ {1, 2} : ctl[c].pc = "idle"

\* C39 as stated: after a pause followed by a resume the task is, field by
\* field (updated_at is not part of the rows here), what it was before the
\* pause, its error_message included.
C39_PauseResumeChangesNothing ==
    PausedThenResumed => tasks[LeafTask] = ctl[1].current

\* C39 as the code has it: after a pause followed by a resume the task has
\* the status it had before the pause and every other field unchanged, except
\* error_message, which is empty whatever the task carried before.
C39_PauseResumeRestoresAllButMessage ==
    PausedThenResumed => tasks[LeafTask] = [ctl[1].current EXCEPT !.error_message = NULL]

\* A pending task that carried a message was paused and resumed.
C39_Witness ==
    /\ PausedThenResumed
    /\ ctl[1].current.status = "pending"
    /\ ctl[1].current.error_message = <<"needs review">>
    /\ tasks[LeafTask].status = "pending"

----------------------------------------------------------------------------
(* mcp_bridge/client.rs: a call that is dropped while it waits for a permit *)

\* lines 139-146: the await on acquire_owned is where the future of a waiting
\* call can be dropped by whoever awaits it (a timeout, a select, an aborted
\* task).  The locals go; nothing runs after the await, so line 148 does not.
BridgeCancel(c) ==
    /\ bridge.call[c].pc = "acquire"
    /\ bridge' = [bridge EXCEPT !.call[c] = [IdleBridgeCall EXCEPT !.pc = "dropped"]]
    /\ last' = Bridged
    /\ UNCHANGED BridgeFrame

NextBridgeCancel ==
    \/ NextBridge
    \/ \E c \in DOMAIN bridge.call : BridgeCancel(c)

SpecBridgeCancel == InitBridge /\ [][NextBridgeCancel]_vars

\* The calls that have added themselves to queued_calls and have neither
\* been turned away nor got past the permit.
Queued == {c \in DOMAIN bridge.call : bridge.call[c].pc \in {"queue_check", "acquire", "dequeue"}}

\* C40: queued_calls is the number of calls that wait for a permit: each call
\* that added one takes it back when it gets its permit, is turned away at the
\* cap, or is dropped while waiting, so the counter is 0 when no call waits.
C40_QueuedCallsCountsWaiting ==
    bridge.queued_calls = Cardinality(Queued)

====
